---- MODULE Spec2Model ----
(***************************************************************************)
(* A model of the routing engine of multi-cloud-llm-router:               *)
(*   - health.Checker   (router/internal/health/checker.go)               *)
(*   - cost.Engine      (router/internal/cost/engine.go)                  *)
(*   - Router selection (router main: selectTarget, getAllTargets, ...)   *)
(*                                                                         *)
(* float64 values are IEEE-754 doubles, [class, neg, sig, exp], and their  *)
(* arithmetic rounds after every operation as the hardware does; -0 and    *)
(* +0, which Go's == does not tell apart, are one value.  Throughput and   *)
(* latency samples are integral, so they are kept as integers and          *)
(* converted where the code computes with them.  Wall-clock fields         *)
(* (LastCheck, ResponseTime) are not modelled; LastUpdate is a logical     *)
(* clock.                                                                  *)
(***************************************************************************)
EXTENDS Integers, Sequences, FiniteSets, TLC

\* ------------------------------------------------------------------ bounds
MaxErrors == 4
MaxCalcs == 3
MaxTicks == 2
MaxRequests == 1
MaxLen == 2
MaxMessages == 2
MaxBlocks == 2

\* --------------------------------------------------------- program constants
maxConsecutiveErrors == 3
DefaultTokensPerSec == 10
DefaultLatencyP95 == 1000
HistoryLimit == 100
MaxLatencyMs == 5000
MaxQueueDepth == 10
ReplayWindow == 300
FallbackHighCost == 999999

\* cluster names the configuration may use
Names == {"a", "b"}

\* ------------------------------------------------------------ float64 values
\* Go's float64 is the IEEE-754 binary64 format: every arithmetic operation
\* yields the representable value nearest to the exact result, ties to the
\* even significand.  A significand has up to 53 bits, more than TLC's
\* integers hold, so naturals are kept as sequences of limbs, least
\* significant first, without leading zero limbs.
Limb == 32768

LimbBits == 15

\* the width of a float64 significand
SigBits == 53

\* the exponent of the least significant bit of the smallest and largest values
MinExp == -1074

MaxExp == 971

RECURSIVE Pow2(_)
Pow2(k) == IF k = 0 THEN 1 ELSE 2 * Pow2(k - 1)

RECURSIVE BNTrim(_)
BNTrim(a) ==
    IF a = <<>> THEN a
    ELSE IF a[Len(a)] = 0 THEN BNTrim(SubSeq(a, 1, Len(a) - 1)) ELSE a

RECURSIVE BNofInt(_)
BNofInt(n) == IF n = 0 THEN <<>> ELSE <<n % Limb>> \o BNofInt(n \div Limb)

BNLimb(a, i) == IF i <= Len(a) THEN a[i] ELSE 0

RECURSIVE BNAddFrom(_, _, _, _)
BNAddFrom(a, b, i, carry) ==
    IF i > Len(a) /\ i > Len(b)
    THEN IF carry = 0 THEN <<>> ELSE <<carry>>
    ELSE LET s == BNLimb(a, i) + BNLimb(b, i) + carry
         IN  <<s % Limb>> \o BNAddFrom(a, b, i + 1, s \div Limb)

BNAdd(a, b) == BNAddFrom(a, b, 1, 0)

\* a - b for a >= b
RECURSIVE BNSubFrom(_, _, _, _)
BNSubFrom(a, b, i, borrow) ==
    IF i > Len(a) THEN <<>>
    ELSE LET d == BNLimb(a, i) - BNLimb(b, i) - borrow
         IN  IF d < 0 THEN <<d + Limb>> \o BNSubFrom(a, b, i + 1, 1)
             ELSE <<d>> \o BNSubFrom(a, b, i + 1, 0)

BNSub(a, b) == BNTrim(BNSubFrom(a, b, 1, 0))

\* -1, 0 or 1 as a is below, equal to or above b, comparing from limb i down
RECURSIVE BNCmpFrom(_, _, _)
BNCmpFrom(a, b, i) ==
    IF i = 0 THEN 0
    ELSE IF a[i] < b[i] THEN -1
    ELSE IF a[i] > b[i] THEN 1
    ELSE BNCmpFrom(a, b, i - 1)

BNCmp(a, b) ==
    IF Len(a) < Len(b) THEN -1
    ELSE IF Len(a) > Len(b) THEN 1
    ELSE BNCmpFrom(a, b, Len(a))

\* a * k + carry for 0 <= k, carry < Limb
RECURSIVE BNMulSmallFrom(_, _, _, _)
BNMulSmallFrom(a, k, i, carry) ==
    IF i > Len(a)
    THEN IF carry = 0 THEN <<>> ELSE <<carry>>
    ELSE LET p == a[i] * k + carry
         IN  <<p % Limb>> \o BNMulSmallFrom(a, k, i + 1, p \div Limb)

BNMulSmall(a, k) == BNTrim(BNMulSmallFrom(a, k, 1, 0))

RECURSIVE BNZeros(_)
BNZeros(n) == IF n = 0 THEN <<>> ELSE <<0>> \o BNZeros(n - 1)

\* a * 2^k
BNShl(a, k) ==
    IF a = <<>> THEN a
    ELSE BNZeros(k \div LimbBits) \o BNMulSmall(a, Pow2(k % LimbBits))

\* the sum of a * b[j] * Limb^(j-1) over the limbs j..Len(b) of b
RECURSIVE BNMulFrom(_, _, _)
BNMulFrom(a, b, j) ==
    IF j > Len(b) THEN <<>>
    ELSE BNAdd(BNZeros(j - 1) \o BNMulSmall(a, b[j]), BNMulFrom(a, b, j + 1))

BNMul(a, b) == BNTrim(BNMulFrom(a, b, 1))

RECURSIVE BitsOf(_)
BitsOf(n) == IF n = 0 THEN 0 ELSE 1 + BitsOf(n \div 2)

BNBitLen(a) ==
    IF a = <<>> THEN 0 ELSE (Len(a) - 1) * LimbBits + BitsOf(a[Len(a)])

\* bit i of a, bit 0 the least significant
BNBit(a, i) == (BNLimb(a, i \div LimbBits + 1) \div Pow2(i % LimbBits)) % 2

\* the digit of a long division: the largest k with b * k <= r, found downwards
\* from an estimate that is never too small
RECURSIVE BNDigit(_, _, _)
BNDigit(r, b, k) ==
    IF BNCmp(BNMulSmall(b, k), r) > 0 THEN BNDigit(r, b, k - 1) ELSE k

\* long division by b, whose top limb is at least Limb / 2, one limb of a at
\* a time from limb i down: quotient and remainder
RECURSIVE BNDivFrom(_, _, _, _, _)
\* the step that has found the digit k of the quotient
BNDivDigit(a, b, i, q, r2, k) ==
    BNDivFrom(a, b, i - 1, <<k>> \o q, BNSub(r2, BNMulSmall(b, k)))

\* the step that starts from est, an estimate of the digit never too small
BNDivEstimate(a, b, i, q, r2, est) ==
    BNDivDigit(a, b, i, q, r2, BNDigit(r2, b, IF est >= Limb THEN Limb - 1 ELSE est))

\* the step on the remainder r2 that limb i of a has joined
BNDivStep(a, b, i, q, r2) ==
    BNDivEstimate(a, b, i, q, r2,
                  (BNLimb(r2, Len(b) + 1) * Limb + BNLimb(r2, Len(b))) \div b[Len(b)])

BNDivFrom(a, b, i, q, r) ==
    IF i = 0 THEN [q |-> BNTrim(q), r |-> r]
    ELSE BNDivStep(a, b, i, q, BNTrim(<<a[i]>> \o r))

\* the limbs i..1 of a divided by k, 0 < k < Limb, given the remainder so far
RECURSIVE BNDivSmallFrom(_, _, _, _)
BNDivSmallFrom(a, k, i, rem) ==
    IF i = 0 THEN <<>>
    ELSE LET t == rem * Limb + a[i]
         IN  BNDivSmallFrom(a, k, i - 1, t % k) \o <<t \div k>>

\* a \div 2^k
BNShr(a, k) ==
    IF k \div LimbBits >= Len(a) THEN <<>>
    ELSE LET high == SubSeq(a, k \div LimbBits + 1, Len(a))
         IN  BNTrim(BNDivSmallFrom(high, Pow2(k % LimbBits), Len(high), 0))

\* the quotient and remainder of a by b, from those of a * 2^norm by b * 2^norm
BNDivNormal(d, norm) == [q |-> d.q, r |-> BNShr(d.r, norm)]

BNDivShifted(a2, b2, norm) ==
    BNDivNormal(BNDivFrom(a2, b2, Len(a2), <<>>, <<>>), norm)

\* a divided by b after a shift by norm bits, which makes b's top limb at
\* least Limb / 2
BNDivBy(a, b, norm) == BNDivShifted(BNShl(a, norm), BNShl(b, norm), norm)

\* a divided by b, b not zero: quotient and remainder
BNDivMod(a, b) == BNDivBy(a, b, LimbBits - BitsOf(b[Len(b)]))

\* ---- the values of a float64: sig * 2^exp, negated when neg.  A finite
\* value has the one representation with 2^52 <= sig < 2^53, or exp = MinExp
FZero == [class |-> "zero", neg |-> FALSE, sig |-> <<>>, exp |-> 0]

Inf == [class |-> "inf", neg |-> FALSE, sig |-> <<>>, exp |-> 0]

NaN == [class |-> "nan", neg |-> FALSE, sig |-> <<>>, exp |-> 0]

IsInf(x) == x.class = "inf"

IsNaN(x) == x.class = "nan"

FSigned(x, neg) ==
    IF x.class \in {"zero", "nan"} THEN x
    ELSE [class |-> x.class, neg |-> neg, sig |-> x.sig, exp |-> x.exp]

\* the finite value sig * 2^exp, or +Inf beyond the largest finite value
FFinite(sig, exp) ==
    IF sig = <<>> THEN FZero
    ELSE IF exp > MaxExp THEN Inf
    ELSE [class |-> "fin", neg |-> FALSE, sig |-> sig, exp |-> exp]

\* a rounded significand that has grown to SigBits + 1 bits loses its last bit
FCarry(rounded, exp) ==
    IF BNBitLen(rounded) > SigBits THEN FFinite(BNShr(rounded, 1), exp + 1)
    ELSE FFinite(rounded, exp)

\* kept * 2^exp plus the dropped bits: half is -1, 0 or 1 as they are below,
\* at or above half of the last kept bit
FRoundUp(kept, half, exp) ==
    FCarry(IF half > 0 \/ (half = 0 /\ BNBit(kept, 0) = 1) THEN BNAdd(kept, <<1>>)
           ELSE kept,
           exp)

\* n * 2^e without its last drop bits
FRoundDrop(n, e, drop) ==
    IF drop <= 0
    THEN [class |-> "fin", neg |-> FALSE, sig |-> BNShl(n, -drop), exp |-> e + drop]
    ELSE FRoundUp(BNShr(n, drop),
                  BNCmp(BNMulSmall(BNSub(n, BNShl(BNShr(n, drop), drop)), 2),
                        BNShl(<<1>>, drop)),
                  e + drop)

\* the bits to drop from len bits at exponent e: those beyond a significand,
\* or those below the smallest exponent
FDropBits(len, e) ==
    IF len - SigBits > MinExp - e THEN len - SigBits ELSE MinExp - e

\* the float64 nearest to n * 2^e, for a natural n: ties go to the even
\* significand, what lies beyond the largest finite value becomes +Inf
FRound(n, e) ==
    IF n = <<>> THEN FZero ELSE FRoundDrop(n, e, FDropBits(BNBitLen(n), e))

\* float64(n) of an integer n
Float(n) == FSigned(FRound(BNofInt(IF n < 0 THEN -n ELSE n), 0), n < 0)

\* the value a quotient and remainder at exponent e round to; the remainder
\* only says on which side of the quotient's last bit the exact value lies
FQuotientRound(quot, e) ==
    IF quot.r = <<>> THEN FRound(quot.q, e)
    ELSE FRound(BNAdd(BNMulSmall(quot.q, 2), <<1>>), e - 1)

\* the value the quotient (n * 2^ne) / (d * 2^de) of two naturals rounds to,
\* computed to k more bits than n has
FQuotientBits(n, ne, d, de, k) ==
    FQuotientRound(BNDivMod(BNShl(n, k), d), ne - de - k)

FQuotient(n, ne, d, de) ==
    FQuotientBits(n, ne, d, de, SigBits + 3 + BNBitLen(d) - BNBitLen(n))

\* the float64 a decimal literal n/d denotes (d a power of ten), as the
\* compiler and the configuration parser read it
Dec(n, d) ==
    IF n = 0 THEN FZero
    ELSE FSigned(FQuotient(BNofInt(IF n < 0 THEN -n ELSE n), 0, BNofInt(d), 0), n < 0)

\* a * b
FMul(a, b) ==
    LET neg == a.neg # b.neg
    IN  IF IsNaN(a) \/ IsNaN(b) THEN NaN
        ELSE IF IsInf(a) \/ IsInf(b)
        THEN IF a.class = "zero" \/ b.class = "zero" THEN NaN ELSE FSigned(Inf, neg)
        ELSE IF a.class = "zero" \/ b.class = "zero" THEN FZero
        ELSE FSigned(FRound(BNMul(a.sig, b.sig), a.exp + b.exp), neg)

\* a / b
FDiv(a, b) ==
    LET neg == a.neg # b.neg
    IN  IF IsNaN(a) \/ IsNaN(b) THEN NaN
        ELSE IF IsInf(a) THEN IF IsInf(b) THEN NaN ELSE FSigned(Inf, neg)
        ELSE IF IsInf(b) THEN FZero
        ELSE IF b.class = "zero"
        THEN IF a.class = "zero" THEN NaN ELSE FSigned(Inf, neg)
        ELSE IF a.class = "zero" THEN FZero
        ELSE FSigned(FQuotient(a.sig, a.exp, b.sig, b.exp), neg)

\* -1, 0 or 1 as |a| is below, equal to or above |b|, for finite values
FCmpAbs(a, b) ==
    IF a.class = "zero" THEN IF b.class = "zero" THEN 0 ELSE -1
    ELSE IF b.class = "zero" THEN 1
    ELSE IF a.exp < b.exp THEN -1
    ELSE IF a.exp > b.exp THEN 1
    ELSE BNCmp(a.sig, b.sig)

\* x + y or x - y at exponent e, rounded
FAddAligned(x, y, e, subtract) ==
    FRound(IF subtract THEN BNSub(x, y) ELSE BNAdd(x, y), e)

\* the sum or difference of the magnitudes of two finite non-zero values with
\* a.exp >= b.exp; a value more than a significand away only tips the rounding
FAddAbs(a, b, subtract) ==
    IF a.exp - b.exp > SigBits + 3
    THEN FAddAligned(BNShl(a.sig, 3), <<1>>, a.exp - 3, subtract)
    ELSE FAddAligned(BNShl(a.sig, a.exp - b.exp), b.sig, b.exp, subtract)

\* big + small for finite non-zero values with |big| >= |small|
FAddOrdered(big, small) ==
    FSigned(FAddAbs(big, small, big.neg # small.neg), big.neg)

\* a + b
FAdd(a, b) ==
    IF IsNaN(a) \/ IsNaN(b) THEN NaN
    ELSE IF IsInf(a) THEN IF IsInf(b) /\ a.neg # b.neg THEN NaN ELSE a
    ELSE IF IsInf(b) THEN b
    ELSE IF a.class = "zero" THEN b
    ELSE IF b.class = "zero" THEN a
    ELSE IF a.neg # b.neg /\ FCmpAbs(a, b) = 0 THEN FZero
    ELSE FAddOrdered(IF FCmpAbs(a, b) >= 0 THEN a ELSE b,
                     IF FCmpAbs(a, b) >= 0 THEN b ELSE a)

\* a < b; a comparison with NaN is false
FLess(a, b) ==
    IF IsNaN(a) \/ IsNaN(b) THEN FALSE
    ELSE IF a = b THEN FALSE
    ELSE IF IsInf(a) THEN a.neg
    ELSE IF IsInf(b) THEN ~b.neg
    ELSE IF a.class = "zero" THEN ~b.neg
    ELSE IF b.class = "zero" THEN a.neg
    ELSE IF a.neg # b.neg THEN a.neg
    ELSE IF a.neg THEN FCmpAbs(a, b) > 0
    ELSE FCmpAbs(a, b) < 0

\* a <= b
FLeq(a, b) == ~IsNaN(a) /\ ~IsNaN(b) /\ (a = b \/ FLess(a, b))

VARIABLES
    hcClusters,   \* Checker.clusters: name -> ClusterMetrics
    hcPc,         \* position of Checker.Start: "new", "wait", "join", "returned"
    hcChecks,     \* goroutines of the current checkAllClusters: name -> phase
    hcMu,         \* Checker.mu between steps: who holds the RWMutex
    ctxDone,      \* the process-wide context has been cancelled
    ceClusters,   \* Engine.clusters: name -> ClusterCost
    ceOverhead,   \* Engine.overheadFactor
    ceNow,        \* logical clock read by time.Now() in the Engine
    ceLog,        \* name -> every cost computed for it since registration (history)
    ticks,        \* rounds of checkAllClusters started so far (bounds the Router runs)
    cfgStrategy,  \* config.Router.RoutingStrategy
    cfgThreshold, \* config.Router.ClusterCostThreshold
    cfgProviders, \* names of the providers registered in the ProviderManager
    cfgEnableExternalFallback, \* config.Router.EnableExternalFallback
    umPc,         \* position of Router.updateMetrics: "new", "wait", "refresh", "cost",
                  \* "gauge", "returned"
    rsPc,         \* position of Router.Start: "new", "serving", "returned"
    umTicks,      \* rounds of refreshMetrics run so far
    umAll,        \* refreshMetrics: allMetrics, the snapshot it works on
    umSeen,       \* refreshMetrics: the clusters and providers its loops have visited
    umCost,       \* refreshMetrics: cost, the Engine's answer for the cluster of the round
    rqPc,         \* position of the request handler: "idle", "targets", "selected",
                  \* "forwarding", "copying", "done"
    rqSeen,       \* getAllTargets: the clusters and providers its loops have visited
    rqAll,        \* the Checker's map at the instant the handler read its snapshot (history)
    rqSnap,       \* getAllTargets: healthyMetrics, the snapshot it iterated over
    rqProvOk,     \* providers whose Health call succeeded in this call (history)
    rqTargets,    \* getAllTargets: targets, the candidate list
    rqResult,     \* what selectTarget returned
    rqForwards,   \* the forward calls this request made (history)
    rqResponse,   \* what the client of this request receives
    rqCtxDone,    \* req.Context() is cancelled: the client of this request is gone
    rqOutCtx,     \* the context of the outbound call in flight, "none" without one
    callIn,       \* a call of a function of the repository: its name and arguments
    callOut,      \* what that call returned, once it has returned
    routerMetrics, \* Router.metrics: the Prometheus counters, labels -> count
    rqCount,      \* requests started so far
    lastOp        \* the operation that produced the current state (history)

healthVars == <<hcClusters, hcPc, hcChecks, hcMu, ctxDone>>
costVars == <<ceClusters, ceOverhead, ceNow, ceLog>>
configVars == <<cfgStrategy, cfgThreshold, cfgProviders, cfgEnableExternalFallback>>
loopVars == <<umPc, rsPc, umTicks, umAll, umSeen, umCost>>
cancelVars == <<rqCtxDone, rqOutCtx>>
callVars == <<callIn, callOut>>
requestVars == <<rqPc, rqSeen, rqAll, rqSnap, rqProvOk, rqTargets, rqResult, rqForwards,
                 rqResponse, rqCount, cancelVars>>
nonHealthVars == <<costVars, configVars, loopVars, requestVars, routerMetrics>>
nonCostVars == <<healthVars, ticks, configVars, loopVars, requestVars, routerMetrics>>
vars == <<hcClusters, hcPc, hcChecks, hcMu, ctxDone, ceClusters, ceOverhead, ceNow, ceLog,
          ticks, cfgStrategy, cfgThreshold, cfgProviders, cfgEnableExternalFallback,
          umPc, rsPc, umTicks, umAll, umSeen, umCost,
          rqPc, rqSeen, rqAll, rqSnap,
          rqProvOk, rqTargets, rqResult, rqForwards, rqResponse, rqCount,
          rqCtxDone, rqOutCtx, callIn, callOut, routerMetrics, lastOp>>

\* ------------------------------------------------------------------ helpers
\* lastOp records the operation, the cluster it was applied to, whether it
\* succeeded, and whether that cluster was healthy just before it.
\* For Cost Engine operations it also records the throughput argument and the
\* cost given or returned.
NoOp == [op |-> "none", name |-> "", ok |-> FALSE, was |-> FALSE, tps |-> 0,
         cost |-> FZero, snap |-> << >>]

Op(o, n, k) ==
    [op |-> o, name |-> n, ok |-> k,
     was |-> (n \in DOMAIN hcClusters) /\ hcClusters[n].Healthy,
     tps |-> 0, cost |-> FZero, snap |-> << >>]

CostOp(o, n, k, t, c) ==
    [op |-> o, name |-> n, ok |-> k, was |-> FALSE, tps |-> t, cost |-> c,
     snap |-> << >>]

\* the state was produced by operation o on n, with outcome k, n having been
\* healthy (w) or not just before
LastWas(o, n, k, w) ==
    /\ lastOp.op = o
    /\ lastOp.name = n
    /\ lastOp.ok = k
    /\ lastOp.was = w

EmptyMap == [n \in {} |-> 0]

\* no function call is being followed
NoCall == [fn |-> "none"]

\* the call followed has not returned yet
NotReturned == [done |-> FALSE]

\* the call followed returned ret
Returned(ret) == [done |-> TRUE, ret |-> ret]

\* sync.RWMutex: the state of Checker.mu when no one holds it
Unlocked == [writer |-> FALSE, readers |-> 0]

\* mu.RLock() returns: no writer holds the lock
CanRLock == ~hcMu.writer

\* mu.Lock() returns: nobody holds the lock
CanLock == ~hcMu.writer /\ hcMu.readers = 0

\* selectTarget has not returned yet
NoResult == [err |-> FALSE, index |-> 0, reason |-> ""]

\* nothing has been written to the http.ResponseWriter yet
NoResponse == [status |-> 0, by |-> "none"]

\* newMetrics: every counter vector is empty
NoMetrics ==
    [routingDecisions |-> [l \in {} |-> 0],
     requestsTotal |-> [l \in {} |-> 0],
     externalAPIRequests |-> [l \in {} |-> 0],
     clusterHealth |-> [l \in {} |-> 0],
     clusterCost |-> [l \in {} |-> 0],
     providerHealth |-> [l \in {} |-> 0],
     providerCost |-> [l \in {} |-> 0]]

\* CounterVec.WithLabelValues(labels...).Inc()
Inc(counter, labels) ==
    [l \in DOMAIN counter \cup {labels} |->
        IF l = labels
        THEN (IF l \in DOMAIN counter THEN counter[l] ELSE 0) + 1
        ELSE counter[l]]

\* the value of a counter for the given labels
Count(counter, labels) == IF labels \in DOMAIN counter THEN counter[labels] ELSE 0

\* router.clusterCostThreshold's default, 0.01
DefaultThreshold == Dec(1, 100)

\* m with key k set to v (k added when absent): Go's m[k] = v
MapPut(m, k, v) == [x \in DOMAIN m \cup {k} |-> IF x = k THEN v ELSE m[x]]

\* m without key k
MapDel(m, k) == [x \in DOMAIN m \ {k} |-> m[x]]

\* the locals of a request handler that is not running
RequestIdle ==
    /\ rqPc = "idle"
    /\ rqSeen = {}
    /\ rqAll = EmptyMap
    /\ rqSnap = EmptyMap
    /\ rqProvOk = {}
    /\ rqTargets = <<>>
    /\ rqResult = NoResult
    /\ rqForwards = <<>>
    /\ rqResponse = NoResponse
    /\ rqCtxDone = FALSE
    /\ rqOutCtx = "none"

\* ---------------------------------------------------------------- cost.Engine
\* router.overheadFactor's default, 1.1
DefaultOverhead == Dec(11, 10)

\* overhead factors, hourly costs and throughputs the operations are tried with
OverheadFactors == {DefaultOverhead, Dec(15, 10)}

ConfigCosts == {Dec(36, 100), Dec(72, 100)}

OverrideCosts == {Dec(36, 1000)}

ThroughputSamples == {-1, 0, 10, 50}

\* AddCluster's fresh ClusterCost
NewClusterCost(costPerHour) ==
    [CostPerHour |-> costPerHour, LastTokensPerSec |-> 0, LastUpdate |-> 0,
     HistoricalCosts |-> <<>>]

\* lines 59-60: (CostPerHour / tokensPerHour) * overheadFactor * 1000, each
\* operation rounded
costPer1KTokensOf(costPerHour, tokensPerSecond, overheadFactor) ==
    LET tokensPerHour == FMul(Float(tokensPerSecond), Float(3600))
    IN  FMul(FMul(FDiv(costPerHour, tokensPerHour), overheadFactor), Float(1000))

\* the throughputs the probes and the callers of the model report
Throughputs == {t \in ThroughputSamples : t > 0} \cup {DefaultTokensPerSec, 20}

\* the values of lines 59-60 on the hourly costs, throughputs and overhead
\* factors above, computed once
KnownCosts ==
    [args \in (ConfigCosts \cup OverrideCosts) \X Throughputs \X OverheadFactors |->
        costPer1KTokensOf(args[1], args[2], args[3])] @@ <<>>


\* (mutant) the overhead factor is left out of the formula
costPer1KTokens_NoOverhead(costPerHour, tokensPerSecond, overheadFactor) ==
    LET tokensPerHour == FMul(Float(tokensPerSecond), Float(3600))
    IN  FMul(FDiv(costPerHour, tokensPerHour), Float(1000))

\* lines 59-60, for any arguments
costPer1KTokens(costPerHour, tokensPerSecond, overheadFactor) ==
    IF <<costPerHour, tokensPerSecond, overheadFactor>> \in DOMAIN KnownCosts
    THEN KnownCosts[<<costPerHour, tokensPerSecond, overheadFactor>>]
    ELSE costPer1KTokensOf(costPerHour, tokensPerSecond, overheadFactor)

\* (mutant) when the history is full the new entry is dropped, not the oldest
appendHistory_KeepOldest(history, cost) ==
    LET h == Append(history, cost)
    IN  IF Len(h) > HistoryLimit THEN SubSeq(h, 1, HistoryLimit) ELSE h

\* lines 67-70: append, then drop the oldest entry beyond the limit
appendHistory(history, cost) ==
    LET h == Append(history, cost)
    IN  IF Len(h) > HistoryLimit THEN Tail(h) ELSE h

\* (mutant) the throughput is recorded before it is validated
CalculateCostPer1KTokens_RecordFirst(clusters, overheadFactor, clusterName, tokensPerSecond, now) ==
    IF clusterName \notin DOMAIN clusters
    THEN [ret |-> Inf, clusters |-> clusters]
    ELSE IF tokensPerSecond <= 0
    THEN [ret |-> Inf,
          clusters |-> [clusters EXCEPT ![clusterName].LastTokensPerSec = tokensPerSecond]]
    ELSE LET cost == costPer1KTokens(clusters[clusterName].CostPerHour,
                                     tokensPerSecond, overheadFactor)
         IN  [ret |-> cost,
              clusters |-> [clusters EXCEPT
                  ![clusterName].LastTokensPerSec = tokensPerSecond,
                  ![clusterName].LastUpdate = now,
                  ![clusterName].HistoricalCosts = appendHistory(@, cost)]]

\* CalculateCostPer1KTokens, all under e.mu: the value returned and the map after
CalculateCostPer1KTokens(clusters, overheadFactor, clusterName, tokensPerSecond, now) ==
    IF clusterName \notin DOMAIN clusters
    THEN [ret |-> Inf, clusters |-> clusters]
    ELSE IF tokensPerSecond <= 0
    THEN [ret |-> Inf, clusters |-> clusters]
    ELSE LET cost == costPer1KTokens(clusters[clusterName].CostPerHour,
                                     tokensPerSecond, overheadFactor)
         IN  [ret |-> cost,
              clusters |-> [clusters EXCEPT
                  ![clusterName].LastTokensPerSec = tokensPerSecond,
                  ![clusterName].LastUpdate = now,
                  ![clusterName].HistoricalCosts = appendHistory(@, cost)]]

UpdateClusterCost(clusters, clusterName, newCostPerHour) ==
    IF clusterName \in DOMAIN clusters
    THEN [clusters EXCEPT ![clusterName].CostPerHour = newCostPerHour]
    ELSE clusters

\* ---- actions of the Engine
EngineAddCluster(n, costPerHour) ==
    /\ ceClusters' = MapPut(ceClusters, n, NewClusterCost(costPerHour))
    /\ ceLog' = MapPut(ceLog, n, <<>>)
    /\ lastOp' = CostOp("EngineAddCluster", n, TRUE, 0, costPerHour)
    /\ UNCHANGED <<callVars, ceOverhead, ceNow, nonCostVars>>

\* one call of CalculateCostPer1KTokens, by a request handler or by refreshMetrics
EngineCalculate(n, tps) ==
    /\ ceNow < MaxCalcs
    /\ LET r == CalculateCostPer1KTokens(ceClusters, ceOverhead, n, tps, ceNow + 1)
       IN  /\ ceClusters' = r.clusters
           /\ ceLog' = IF IsInf(r.ret) THEN ceLog
                       ELSE [ceLog EXCEPT ![n] = Append(@, r.ret)]
           /\ lastOp' = CostOp("Calculate", n, ~IsInf(r.ret), tps, r.ret)
    /\ ceNow' = ceNow + 1
    /\ UNCHANGED <<callVars, ceOverhead, nonCostVars>>

EngineUpdateClusterCost(n, costPerHour) ==
    /\ ceClusters' = UpdateClusterCost(ceClusters, n, costPerHour)
    /\ lastOp' = CostOp("UpdateClusterCost", n, n \in DOMAIN ceClusters, 0, costPerHour)
    /\ UNCHANGED <<callVars, ceOverhead, ceNow, ceLog, nonCostVars>>

\* ---- the Cost Engine on its own.  It starts as NewEngine(overheadFactor)
\* left it, or warm: after cluster "a" was registered and WarmCalls costs were
\* computed for it, so that the history limit is within reach.
WarmCalls == HistoryLimit - 1

WarmCost == Dec(36, 100)

WarmThroughput == DefaultTokensPerSec

\* the ClusterCost of "a" after WarmCalls calls
\* CalculateCostPer1KTokens("a", WarmThroughput) since its registration
WarmClusterCost(overheadFactor) ==
    [CostPerHour |-> WarmCost, LastTokensPerSec |-> WarmThroughput, LastUpdate |-> 0,
     HistoricalCosts |-> [i \in 1..WarmCalls |->
                             costPer1KTokens(WarmCost, WarmThroughput, overheadFactor)]]

CostInit ==
    /\ hcClusters = EmptyMap
    /\ hcPc = "new"
    /\ hcChecks = EmptyMap
    /\ hcMu = Unlocked
    /\ ctxDone = FALSE
    /\ umPc = "new"
    /\ rsPc = "new"
    /\ umTicks = 0
    /\ umAll = EmptyMap
    /\ umSeen = {}
    /\ umCost = FZero
    /\ ceOverhead \in OverheadFactors
    /\ ceNow = 0
    /\ \/ /\ ceClusters = EmptyMap
          /\ ceLog = EmptyMap
       \/ /\ ceClusters = MapPut(EmptyMap, "a", WarmClusterCost(ceOverhead))
          /\ ceLog = MapPut(EmptyMap, "a", ceClusters["a"].HistoricalCosts)
    /\ ticks = 0
    /\ cfgStrategy = "hybrid"
    /\ cfgThreshold = DefaultThreshold
    /\ cfgProviders = {}
    /\ cfgEnableExternalFallback = FALSE
    /\ RequestIdle
    /\ routerMetrics = NoMetrics
    /\ callIn = NoCall
    /\ callOut = NotReturned
    /\ rqCount = 0
    /\ lastOp = NoOp

CostNext ==
    \/ \E n \in Names, c \in ConfigCosts : EngineAddCluster(n, c)
    \/ \E n \in Names, t \in ThroughputSamples : EngineCalculate(n, t)
    \/ \E n \in Names, c \in OverrideCosts : EngineUpdateClusterCost(n, c)

CostSpec == CostInit /\ [][CostNext]_vars

\* ------------------------------------------------------- health.Checker
EndpointOf(n) == "http://" \o n

\* AddCluster's fresh ClusterMetrics: zero values, Healthy false
NewClusterMetrics(endpoint) ==
    [Healthy |-> FALSE, LatencyP95 |-> 0, QueueDepth |-> 0, TokensPerSecond |-> 0,
     ErrorCount |-> 0, ConsecutiveError |-> 0, Endpoint |-> endpoint]

\* What the probed endpoint answers: healthOK is "GET /health returned 200";
\* statsOK is "GET /metrics and GET /stats returned 200 and the body decoded";
\* the three numbers are the decoded stats.
ProbeResponses ==
    { [healthOK |-> FALSE, statsOK |-> FALSE, QueueDepth |-> 0, TokensPerSecond |-> 0, LatencyP95 |-> 0],
      [healthOK |-> TRUE,  statsOK |-> FALSE, QueueDepth |-> 0, TokensPerSecond |-> 0, LatencyP95 |-> 0],
      [healthOK |-> TRUE,  statsOK |-> TRUE,  QueueDepth |-> -1, TokensPerSecond |-> 0, LatencyP95 |-> 0],
      [healthOK |-> TRUE,  statsOK |-> TRUE,  QueueDepth |-> 2, TokensPerSecond |-> 20, LatencyP95 |-> 200],
      [healthOK |-> TRUE,  statsOK |-> TRUE,  QueueDepth |-> 20, TokensPerSecond |-> 20, LatencyP95 |-> 200],
      [healthOK |-> TRUE,  statsOK |-> TRUE,  QueueDepth |-> 0, TokensPerSecond |-> 50, LatencyP95 |-> 6000] }

getMetrics(resp) ==
    IF ~resp.statsOK
    THEN [queueDepth |-> 0, tokensPerSec |-> DefaultTokensPerSec, latencyP95 |-> DefaultLatencyP95]
    ELSE [queueDepth   |-> IF resp.QueueDepth >= 0 THEN resp.QueueDepth ELSE 0,
          tokensPerSec |-> IF resp.TokensPerSecond > 0 THEN resp.TokensPerSecond
                           ELSE DefaultTokensPerSec,
          latencyP95   |-> IF resp.LatencyP95 > 0 THEN resp.LatencyP95
                           ELSE DefaultLatencyP95]

performHealthCheck(resp) ==
    IF ~resp.healthOK
    THEN [healthy |-> FALSE, queueDepth |-> 0, tokensPerSec |-> 0, latencyP95 |-> 0]
    ELSE LET m == getMetrics(resp)
         IN  [healthy |-> TRUE, queueDepth |-> m.queueDepth,
              tokensPerSec |-> m.tokensPerSec, latencyP95 |-> m.latencyP95]

\* (mutant) a failed probe marks the cluster unhealthy at once
checkClusterUpdate_NoHysteresis(cluster, r) ==
    LET c1 == [cluster EXCEPT !.LatencyP95 = r.latencyP95,
                              !.QueueDepth = r.queueDepth,
                              !.TokensPerSecond = r.tokensPerSec]
    IN  IF r.healthy
        THEN [c1 EXCEPT !.Healthy = TRUE, !.ConsecutiveError = 0]
        ELSE [c1 EXCEPT !.ErrorCount = @ + 1, !.ConsecutiveError = @ + 1,
                        !.Healthy = FALSE]

\* (mutant) the threshold test is > instead of >=
checkClusterUpdate_Late(cluster, r) ==
    LET c1 == [cluster EXCEPT !.LatencyP95 = r.latencyP95,
                              !.QueueDepth = r.queueDepth,
                              !.TokensPerSecond = r.tokensPerSec]
    IN  IF r.healthy
        THEN [c1 EXCEPT !.Healthy = TRUE, !.ConsecutiveError = 0]
        ELSE LET c2 == [c1 EXCEPT !.ErrorCount = @ + 1, !.ConsecutiveError = @ + 1]
             IN  IF c2.ConsecutiveError > maxConsecutiveErrors
                 THEN [c2 EXCEPT !.Healthy = FALSE]
                 ELSE c2

\* (mutant) a successful probe recovers gradually: it lowers the counter by one
\* and restores Healthy only once the counter is back to 0
checkClusterUpdate_Gradual(cluster, r) ==
    LET c1 == [cluster EXCEPT !.LatencyP95 = r.latencyP95,
                              !.QueueDepth = r.queueDepth,
                              !.TokensPerSecond = r.tokensPerSec]
    IN  IF r.healthy
        THEN LET ce == IF c1.ConsecutiveError > 0 THEN c1.ConsecutiveError - 1 ELSE 0
             IN  [c1 EXCEPT !.ConsecutiveError = ce,
                            !.Healthy = IF ce = 0 THEN TRUE ELSE @]
        ELSE LET c2 == [c1 EXCEPT !.ErrorCount = @ + 1, !.ConsecutiveError = @ + 1]
             IN  IF c2.ConsecutiveError >= maxConsecutiveErrors
                 THEN [c2 EXCEPT !.Healthy = FALSE]
                 ELSE c2

\* the locked part of checkCluster: the record after a probe result r is applied
checkClusterUpdate(cluster, r) ==
    LET c1 == [cluster EXCEPT !.LatencyP95 = r.latencyP95,
                              !.QueueDepth = r.queueDepth,
                              !.TokensPerSecond = r.tokensPerSec]
    IN  IF r.healthy
        THEN [c1 EXCEPT !.Healthy = TRUE, !.ConsecutiveError = 0]
        ELSE LET c2 == [c1 EXCEPT !.ErrorCount = @ + 1, !.ConsecutiveError = @ + 1]
             IN  IF c2.ConsecutiveError >= maxConsecutiveErrors
                 THEN [c2 EXCEPT !.Healthy = FALSE]
                 ELSE c2

MarkUnhealthyUpdate(cluster) ==
    [cluster EXCEPT !.Healthy = FALSE, !.ErrorCount = @ + 1, !.ConsecutiveError = @ + 1]

\* (mutant) the override restores Healthy and leaves the error streak as it is
ForceHealthyUpdate_KeepsStreak(cluster) ==
    [cluster EXCEPT !.Healthy = TRUE]

ForceHealthyUpdate(cluster) ==
    [cluster EXCEPT !.Healthy = TRUE, !.ConsecutiveError = 0]

GetHealthyMetrics ==
    LET healthy == {n \in DOMAIN hcClusters : hcClusters[n].Healthy}
    IN  [n \in healthy |-> hcClusters[n]]

GetAllMetrics == hcClusters

\* ---- actions of the Checker
CheckerAddCluster(n) ==
    /\ CanLock
    /\ hcClusters' = MapPut(hcClusters, n, NewClusterMetrics(EndpointOf(n)))
    /\ lastOp' = Op("AddCluster", n, TRUE)
    /\ UNCHANGED <<callVars, hcMu, hcPc, hcChecks, ctxDone, ticks, nonHealthVars>>

\* checkAllClusters up to wg.Wait: one goroutine per registered cluster
checkAllClustersBegin ==
    [n \in DOMAIN hcClusters |-> "spawned"]

\* Start: the initial check (ticks is left to the specification that uses it)
CheckerStart ==
    /\ CanRLock
    /\ hcPc = "new"
    /\ hcPc' = "join"
    /\ hcChecks' = checkAllClustersBegin
    /\ lastOp' = Op("Start", "", TRUE)
    /\ UNCHANGED <<callVars, hcMu, hcClusters, ctxDone, nonHealthVars>>

\* Start: case <-ticker.C
CheckerTick ==
    /\ CanRLock
    /\ hcPc = "wait"
    /\ hcPc' = "join"
    /\ hcChecks' = checkAllClustersBegin
    /\ lastOp' = Op("Tick", "", TRUE)
    /\ UNCHANGED <<callVars, hcMu, hcClusters, ctxDone, nonHealthVars>>

\* (mutant) the probe runs inside the locked section: mu stays write-locked
\* until the result is applied
checkClusterBegin_LockedProbe(n) ==
    /\ CanLock
    /\ hcPc = "join"
    /\ n \in DOMAIN hcChecks
    /\ hcChecks[n] = "spawned"
    /\ hcChecks' = IF n \in DOMAIN hcClusters
                   THEN [hcChecks EXCEPT ![n] = "probing"]
                   ELSE MapDel(hcChecks, n)
    /\ hcMu' = IF n \in DOMAIN hcClusters
               THEN [writer |-> TRUE, readers |-> 0]
               ELSE hcMu
    /\ lastOp' = Op("checkClusterBegin", n, TRUE)
    /\ UNCHANGED <<callVars, hcClusters, hcPc, ctxDone, ticks, nonHealthVars>>

\* checkCluster, first locked section: look the cluster up, read its endpoint
checkClusterBegin(n) ==
    /\ CanRLock
    /\ hcPc = "join"
    /\ n \in DOMAIN hcChecks
    /\ hcChecks[n] = "spawned"
    /\ hcChecks' = IF n \in DOMAIN hcClusters
                   THEN [hcChecks EXCEPT ![n] = "probing"]
                   ELSE MapDel(hcChecks, n)
    /\ lastOp' = Op("checkClusterBegin", n, TRUE)
    /\ UNCHANGED <<callVars, hcMu, hcClusters, hcPc, ctxDone, ticks, nonHealthVars>>

\* checkCluster, second locked section: the probe answered resp
checkClusterApply(n, resp) ==
    /\ CanLock
    /\ hcPc = "join"
    /\ n \in DOMAIN hcChecks
    /\ hcChecks[n] = "probing"
    /\ LET r == performHealthCheck(resp)
       IN  /\ r.healthy \/ hcClusters[n].ErrorCount < MaxErrors
           /\ hcClusters' = [hcClusters EXCEPT ![n] = checkClusterUpdate(@, r)]
           /\ lastOp' = Op("checkCluster", n, r.healthy)
    /\ hcChecks' = MapDel(hcChecks, n)
    /\ UNCHANGED <<callVars, hcMu, hcPc, ctxDone, ticks, nonHealthVars>>

\* (mutant) wg.Wait does not wait: the loop goes on with checks in flight
checkAllClustersJoin_Early ==
    /\ hcPc = "join"
    /\ hcPc' = "wait"
    /\ lastOp' = Op("Join", "", TRUE)
    /\ UNCHANGED <<callVars, hcMu, hcClusters, hcChecks, ctxDone, ticks, nonHealthVars>>

\* checkAllClusters: wg.Wait returns, the loop goes back to its select
checkAllClustersJoin ==
    /\ hcPc = "join"
    /\ DOMAIN hcChecks = {}
    /\ hcPc' = "wait"
    /\ lastOp' = Op("Join", "", TRUE)
    /\ UNCHANGED <<callVars, hcMu, hcClusters, hcChecks, ctxDone, ticks, nonHealthVars>>

\* (mutant) the select has no ctx.Done() case: the loop only waits for ticks
CheckerReturn_NoDoneCase ==
    /\ hcPc = "wait"
    /\ ctxDone
    /\ hcPc' = "wait"
    /\ lastOp' = Op("Return", "", FALSE)
    /\ UNCHANGED <<callVars, hcMu, hcClusters, hcChecks, ctxDone, ticks, nonHealthVars>>

\* Start: case <-ctx.Done()
CheckerReturn ==
    /\ hcPc = "wait"
    /\ ctxDone
    /\ hcPc' = "returned"
    /\ lastOp' = Op("Return", "", TRUE)
    /\ UNCHANGED <<callVars, hcMu, hcClusters, hcChecks, ctxDone, ticks, nonHealthVars>>

\* main: cancel() on a shutdown signal
Cancel ==
    /\ ~ctxDone
    /\ ctxDone' = TRUE
    /\ lastOp' = Op("Cancel", "", TRUE)
    /\ UNCHANGED <<callVars, hcMu, hcClusters, hcPc, hcChecks, ticks, nonHealthVars>>

MarkUnhealthy(n) ==
    /\ CanLock
    /\ IF n \in DOMAIN hcClusters
       THEN /\ hcClusters[n].ErrorCount < MaxErrors
            /\ hcClusters' = [hcClusters EXCEPT ![n] = MarkUnhealthyUpdate(@)]
       ELSE UNCHANGED hcClusters
    /\ lastOp' = Op("MarkUnhealthy", n, n \in DOMAIN hcClusters)
    /\ UNCHANGED <<callVars, hcMu, hcPc, hcChecks, ctxDone, ticks, nonHealthVars>>

ForceHealthy(n) ==
    /\ CanLock
    /\ hcClusters' = IF n \in DOMAIN hcClusters
                     THEN [hcClusters EXCEPT ![n] = ForceHealthyUpdate(@)]
                     ELSE hcClusters
    /\ lastOp' = Op("ForceHealthy", n, n \in DOMAIN hcClusters)
    /\ UNCHANGED <<callVars, hcMu, hcPc, hcChecks, ctxDone, ticks, nonHealthVars>>

\* a caller of GetHealthyMetrics (getAllTargets, healthHandler) gets its copy
GetHealthyMetricsCall ==
    /\ CanRLock
    /\ lastOp' = [Op("GetHealthyMetrics", "", TRUE) EXCEPT !.snap = GetHealthyMetrics]
    /\ UNCHANGED <<callVars, healthVars, ticks, nonHealthVars>>

\* a caller of GetAllMetrics (refreshMetrics) gets its copy
GetAllMetricsCall ==
    /\ CanRLock
    /\ lastOp' = [Op("GetAllMetrics", "", TRUE) EXCEPT !.snap = GetAllMetrics]
    /\ UNCHANGED <<callVars, healthVars, ticks, nonHealthVars>>

\* ---- the Health Monitor on its own: NewChecker, then any of its operations
HealthInit ==
    /\ hcClusters = EmptyMap
    /\ hcPc = "new"
    /\ hcChecks = EmptyMap
    /\ hcMu = Unlocked
    /\ ctxDone = FALSE
    /\ umPc = "new"
    /\ rsPc = "new"
    /\ umTicks = 0
    /\ umAll = EmptyMap
    /\ umSeen = {}
    /\ umCost = FZero
    /\ ceClusters = EmptyMap
    /\ ceOverhead = DefaultOverhead
    /\ ceNow = 0
    /\ ceLog = EmptyMap
    /\ ticks = 0
    /\ cfgStrategy = "hybrid"
    /\ cfgThreshold = DefaultThreshold
    /\ cfgProviders = {}
    /\ cfgEnableExternalFallback = FALSE
    /\ RequestIdle
    /\ routerMetrics = NoMetrics
    /\ callIn = NoCall
    /\ callOut = NotReturned
    /\ rqCount = 0
    /\ lastOp = NoOp

HealthNext ==
    \/ \E n \in Names : CheckerAddCluster(n)
    \/ CheckerStart /\ UNCHANGED ticks
    \/ CheckerTick /\ UNCHANGED ticks
    \/ \E n \in Names : checkClusterBegin(n)
    \/ \E n \in Names, resp \in ProbeResponses : checkClusterApply(n, resp)
    \/ checkAllClustersJoin
    \/ \E n \in Names : MarkUnhealthy(n)
    \/ \E n \in Names : ForceHealthy(n)

HealthSpec == HealthInit /\ [][HealthNext]_vars

\* ---- the Health Monitor read while it polls: the clusters registered by
\* NewRouter, the poll loop with each check in its two locked sections, the
\* ForceHealthy override, and callers taking snapshots at any moment
SnapshotInit ==
    /\ hcClusters = [n \in Names |-> NewClusterMetrics(EndpointOf(n))]
    /\ hcPc = "new"
    /\ hcChecks = EmptyMap
    /\ hcMu = Unlocked
    /\ ctxDone = FALSE
    /\ umPc = "new"
    /\ rsPc = "new"
    /\ umTicks = 0
    /\ umAll = EmptyMap
    /\ umSeen = {}
    /\ umCost = FZero
    /\ ceClusters = EmptyMap
    /\ ceOverhead = DefaultOverhead
    /\ ceNow = 0
    /\ ceLog = EmptyMap
    /\ ticks = 0
    /\ cfgStrategy = "hybrid"
    /\ cfgThreshold = DefaultThreshold
    /\ cfgProviders = {}
    /\ cfgEnableExternalFallback = FALSE
    /\ RequestIdle
    /\ routerMetrics = NoMetrics
    /\ callIn = NoCall
    /\ callOut = NotReturned
    /\ rqCount = 0
    /\ lastOp = NoOp

SnapshotNext ==
    \/ ticks < MaxTicks /\ CheckerStart /\ ticks' = ticks + 1
    \/ ticks < MaxTicks /\ CheckerTick /\ ticks' = ticks + 1
    \/ \E n \in Names : checkClusterBegin(n)
    \/ \E n \in Names, resp \in ProbeResponses : checkClusterApply(n, resp)
    \/ checkAllClustersJoin
    \/ \E n \in Names : ForceHealthy(n)
    \/ GetHealthyMetricsCall
    \/ GetAllMetricsCall

SnapshotSpec == SnapshotInit /\ [][SnapshotNext]_vars

\* ------------------------------------------------------------- providers
\* a price in dollars per 1K tokens, given in millionths of a dollar
Price(micro) == Dec(micro, 1000000)

ModelPricing(inMicro, outMicro) ==
    [InputPricePer1K |-> Price(inMicro), OutputPricePer1K |-> Price(outMicro)]

\* the pricing tables built by NewOpenAIProvider, NewClaudeProvider, NewGeminiProvider
OpenAIPricing ==
    [m \in {"gpt-4", "gpt-4-turbo", "gpt-3.5-turbo", "gpt-3.5-turbo-16k"} |->
        CASE m = "gpt-4" -> ModelPricing(30000, 60000)
          [] m = "gpt-4-turbo" -> ModelPricing(10000, 30000)
          [] m = "gpt-3.5-turbo" -> ModelPricing(500, 1500)
          [] m = "gpt-3.5-turbo-16k" -> ModelPricing(3000, 4000)]

ClaudePricing ==
    [m \in {"claude-3-5-sonnet-20241022", "claude-3-opus-20240229",
            "claude-3-sonnet-20240229", "claude-3-haiku-20240307"} |->
        CASE m = "claude-3-5-sonnet-20241022" -> ModelPricing(3000, 15000)
          [] m = "claude-3-opus-20240229" -> ModelPricing(15000, 75000)
          [] m = "claude-3-sonnet-20240229" -> ModelPricing(3000, 15000)
          [] m = "claude-3-haiku-20240307" -> ModelPricing(250, 1250)]

GeminiPricing ==
    [m \in {"gemini-1.5-pro", "gemini-1.5-flash", "gemini-pro"} |->
        CASE m = "gemini-1.5-pro" -> ModelPricing(3500, 10500)
          [] m = "gemini-1.5-flash" -> ModelPricing(75, 300)
          [] m = "gemini-pro" -> ModelPricing(500, 1500)]

\* the provider types NewRouter constructs an adapter for
ProviderTypes == {"openai", "claude", "gemini"}

\* the configuration modelled names each provider after its type
GetModelPricing(provider) ==
    CASE provider = "openai" -> OpenAIPricing
      [] provider = "claude" -> ClaudePricing
      [] provider = "gemini" -> GeminiPricing

\* the provider sets a configuration may enable
ProviderSets == {{"openai", "claude"}}

\* getAllTargets lines 567-576: the lowest (input + output) / 2 over the
\* pricing table, 999999 when no model is lower
providerCost(pricing) ==
    LET avgs == {FDiv(FAdd(pricing[m].InputPricePer1K, pricing[m].OutputPricePer1K),
                        Float(2)) : m \in DOMAIN pricing}
        all == avgs \cup {Float(FallbackHighCost)}
    IN  CHOOSE c \in all : \A d \in all : FLeq(c, d)


\* the values of lines 567-576 for the three adapters, computed once
KnownProviderCosts ==
    [p \in ProviderTypes |-> providerCost(GetModelPricing(p))] @@ <<>>

\* refreshMetrics line 847, (input + output) / 2 for every model of every
\* adapter, computed once
KnownAverageCosts ==
    [p \in ProviderTypes |->
        [m \in DOMAIN GetModelPricing(p) |->
            FDiv(FAdd(GetModelPricing(p)[m].InputPricePer1K,
                      GetModelPricing(p)[m].OutputPricePer1K), Float(2))] @@ <<>>] @@ <<>>

\* the provider sets the Router is run with next to its loops
RouterProviderSets == {{"openai"}}

StatusOK == 200
StatusTooManyRequests == 429

\* what httpClient.Do may give a health request: a transport error, or a
\* response with a status code
HealthResponses ==
    [transportErr : {TRUE}, StatusCode : {0}]
    \cup [transportErr : {FALSE}, StatusCode : {StatusOK, 401, StatusTooManyRequests, 500, 503}]

\* the error value returned: nil, or an error
NilError == [err |-> FALSE]
HealthError(msg, status) == [err |-> TRUE, msg |-> msg, status |-> status]

\* OpenAIProvider.Health
OpenAIHealth(resp) ==
    IF resp.transportErr THEN HealthError("transport", 0)
    ELSE IF resp.StatusCode # StatusOK
         THEN HealthError("OpenAI health check failed with status", resp.StatusCode)
    ELSE NilError

\* ClaudeProvider.Health
ClaudeHealth(resp) ==
    IF resp.transportErr THEN HealthError("transport", 0)
    ELSE IF resp.StatusCode # StatusOK /\ resp.StatusCode # StatusTooManyRequests
         THEN HealthError("Claude health check failed with status", resp.StatusCode)
    ELSE NilError

\* GeminiProvider.Health
GeminiHealth(resp) ==
    IF resp.transportErr THEN HealthError("transport", 0)
    ELSE IF resp.StatusCode # StatusOK
         THEN HealthError("Gemini health check failed with status", resp.StatusCode)
    ELSE NilError

\* Provider.Health of the adapter of the given type
Health(type, resp) ==
    CASE type = "openai" -> OpenAIHealth(resp)
      [] type = "claude" -> ClaudeHealth(resp)
      [] type = "gemini" -> GeminiHealth(resp)

\* inputTokens * InputPricePer1K / 1000 + outputTokens * OutputPricePer1K / 1000
CostWith(pricing, inputTokens, outputTokens) ==
    FAdd(FDiv(FMul(Float(inputTokens), pricing.InputPricePer1K), Float(1000)),
           FDiv(FMul(Float(outputTokens), pricing.OutputPricePer1K), Float(1000)))

\* the body the three CalculateCost methods share: the default model, the
\* adapter's fallback when it is empty or has no entry in the table
CalculateCostOf(table, fallback, defaultModel, inputTokens, outputTokens) ==
    LET model == IF defaultModel = "" THEN fallback ELSE defaultModel
        pricing == IF model \in DOMAIN table THEN table[model] ELSE table[fallback]
    IN  CostWith(pricing, inputTokens, outputTokens)

\* OpenAIProvider.CalculateCost
OpenAICalculateCost(defaultModel, inputTokens, outputTokens) ==
    CalculateCostOf(OpenAIPricing, "gpt-3.5-turbo", defaultModel, inputTokens, outputTokens)

\* ClaudeProvider.CalculateCost
ClaudeCalculateCost(defaultModel, inputTokens, outputTokens) ==
    CalculateCostOf(ClaudePricing, "claude-3-haiku-20240307", defaultModel,
                    inputTokens, outputTokens)

\* GeminiProvider.CalculateCost
GeminiCalculateCost(defaultModel, inputTokens, outputTokens) ==
    CalculateCostOf(GeminiPricing, "gemini-pro", defaultModel, inputTokens, outputTokens)

\* Provider.CalculateCost of the adapter of the given type
CalculateCost(type, defaultModel, inputTokens, outputTokens) ==
    CASE type = "openai" -> OpenAICalculateCost(defaultModel, inputTokens, outputTokens)
      [] type = "claude" -> ClaudeCalculateCost(defaultModel, inputTokens, outputTokens)
      [] type = "gemini" -> GeminiCalculateCost(defaultModel, inputTokens, outputTokens)

\* config.DefaultModel values: unset, a model of the table, a model of no table
DefaultModels ==
    {"", "gpt-4", "claude-3-opus-20240229", "gemini-1.5-pro", "gemini-1.5-flash",
     "unknown-model"}

TokenCounts == {0, 500, 1000}

\* ------------------------------------------------ provider format translation
\* a canonical (OpenAI-style) chat message: its role, and its content, which
\* is a JSON string or something else (an array of content parts)
StringContent(text) == [isString |-> TRUE, text |-> text]
PartsContent == [isString |-> FALSE, text |-> ""]

MessageRoles == {"user", "assistant", "system", "tool"}

Messages == [role : MessageRoles, content : {StringContent("hi"), StringContent("yo"), PartsContent}]

\* the messages arrays of at most MaxMessages messages
MessageLists == UNION {[1..n -> Messages] : n \in 0..MaxMessages}

\* a Go slice: nil, which json.Marshal writes as null, or a list of items,
\* which it writes as an array
NilSlice == [nil |-> TRUE, items |-> <<>>]

Slice(items) == [nil |-> FALSE, items |-> items]

\* append(slice, item): the result is never nil
append(slice, item) == Slice(Append(slice.items, item))

\* the loop of convertToGeminiFormat over messages[i..], parts collected so far
RECURSIVE convertMessages(_, _, _)
convertMessages(messages, i, parts) ==
    IF i > Len(messages) THEN parts
    ELSE LET msg == messages[i]
             role == IF msg.role = "assistant" THEN "model" ELSE "user"
         IN  IF msg.role = "system" THEN convertMessages(messages, i + 1, parts)
             ELSE IF msg.content.isString
                  THEN convertMessages(messages, i + 1,
                           append(parts, [role |-> role,
                                          parts |-> <<[text |-> msg.content.text]>>]))
             ELSE convertMessages(messages, i + 1, parts)

\* GeminiProvider.convertToGeminiFormat: the outbound request as the map
\* json.Marshal writes, and the model.  contents starts as an empty list
\* (line 150); a messages array replaces it with parts, declared nil (line
\* 164) and still nil when no message was converted
convertToGeminiFormat(requestData, defaultModel) ==
    LET m == IF "model" \in DOMAIN requestData THEN requestData["model"] ELSE defaultModel
        model == IF m = "" THEN "gemini-pro" ELSE m
        contents == IF "messages" \in DOMAIN requestData
                    THEN convertMessages(requestData["messages"], 1, NilSlice)
                    ELSE Slice(<<>>)
        renamed == [temperature |-> "temperature", top_p |-> "topP",
                    max_tokens |-> "maxOutputTokens"]
        configKeys == DOMAIN requestData \cap DOMAIN renamed
        generationConfig == [k \in {renamed[c] : c \in configKeys} |->
                                requestData[CHOOSE c \in configKeys : renamed[c] = k]]
        fields == {"contents"} \cup
                  (IF configKeys # {} THEN {"generationConfig"} ELSE {})
    IN  [body |-> [f \in fields |-> IF f = "contents" THEN contents ELSE generationConfig],
         model |-> model]

\* canonical requests: a messages array, with or without model and
\* temperature, and a request without messages
GeminiRequests ==
    {[k \in {"messages"} |-> msgs] : msgs \in MessageLists}
    \cup {[k \in {"messages", "model", "temperature"} |->
              CASE k = "messages" -> msgs
                [] k = "model" -> "gemini-1.5-pro"
                [] k = "temperature" -> "0.7"] : msgs \in MessageLists}
    \cup {[k \in {"model"} |-> "gemini-1.5-pro"]}

\* a byte string a provider may answer with: text that is no JSON, a JSON
\* array, or a JSON object given by its decoded value
Text(t) == [kind |-> "text", text |-> t]
JSONArray == [kind |-> "array"]
JSONObject(data) == [kind |-> "object", data |-> data]

\* json.Unmarshal(bytes, &map[string]interface{}): only a JSON object decodes
Unmarshal(bytes) ==
    IF bytes.kind = "object" THEN [err |-> FALSE, data |-> bytes.data]
    ELSE [err |-> TRUE]

\* json.Marshal of a map
Marshal(data) == JSONObject(data)

\* the texts of content blocks and parts, as strings of bytes
BlockTexts == {<<"a">>, <<"b", "c">>}

\* the lists of at most MaxBlocks content blocks or parts
BlockLists == UNION {[1..n -> [text : BlockTexts]] : n \in 0..MaxBlocks}

\* token counts a provider reports
ReportedTokens == [input |-> 12, output |-> 7]

\* a Gemini generateContent answer: one candidate with its parts, with or
\* without usageMetadata
GeminiData(parts, withUsage) ==
    [k \in {"candidates"} \cup (IF withUsage THEN {"usageMetadata"} ELSE {}) |->
        IF k = "candidates" THEN <<[content |-> [parts |-> parts]]>>
        ELSE [promptTokenCount |-> ReportedTokens.input,
              candidatesTokenCount |-> ReportedTokens.output,
              totalTokenCount |-> ReportedTokens.input + ReportedTokens.output]]

\* a Claude messages answer: content blocks, with or without usage
ClaudeData(blocks, withUsage) ==
    [k \in {"model", "content"} \cup (IF withUsage THEN {"usage"} ELSE {}) |->
        CASE k = "model" -> "claude-3-haiku-20240307"
          [] k = "content" -> [i \in 1..Len(blocks) |->
                                 [type |-> "text", text |-> blocks[i].text]]
          [] k = "usage" -> [input_tokens |-> ReportedTokens.input,
                             output_tokens |-> ReportedTokens.output]]

\* what a provider may answer: bytes that do not parse, or an answer
MalformedResponses == {Text("upstream connect error"), JSONArray}

GeminiResponses ==
    MalformedResponses
    \cup {JSONObject(GeminiData(parts, u)) : parts \in BlockLists, u \in BOOLEAN}

ClaudeResponses ==
    MalformedResponses
    \cup {JSONObject(ClaudeData(blocks, u)) : blocks \in BlockLists, u \in BOOLEAN}

\* GeminiProvider.extractGeminiContent: "" is the empty string of bytes
extractGeminiContent(geminiData) ==
    IF "candidates" \in DOMAIN geminiData /\ Len(geminiData["candidates"]) > 0
    THEN LET parts == geminiData["candidates"][1].content.parts
         IN  IF Len(parts) > 0 THEN parts[1].text ELSE <<>>
    ELSE <<>>

\* extractClaudeContent
extractClaudeContent(claudeData) ==
    IF "content" \in DOMAIN claudeData /\ Len(claudeData["content"]) > 0
    THEN claudeData["content"][1].text
    ELSE <<>>

\* the canonical response both adapters build, before usage is added
CanonicalResponse(model, content, now) ==
    [id |-> <<"chatcmpl-", now>>,
     object |-> "chat.completion",
     created |-> now,
     model |-> model,
     choices |-> <<[index |-> 0,
                    message |-> [role |-> "assistant", content |-> content],
                    finish_reason |-> "stop"]>>]

\* GeminiProvider.convertFromGeminiFormat
convertFromGeminiFormat(geminiResponse, model, now) ==
    LET parsed == Unmarshal(geminiResponse)
    IN  IF parsed.err
        THEN Marshal([error |-> [message |-> "Failed to parse Gemini response",
                                 type |-> "api_error"]])
        ELSE LET geminiData == parsed.data
                 openaiResponse ==
                     CanonicalResponse(model, extractGeminiContent(geminiData), now)
             IN  IF "usageMetadata" \in DOMAIN geminiData
                 THEN Marshal(openaiResponse @@
                          [usage |-> [prompt_tokens |->
                                          geminiData["usageMetadata"].promptTokenCount,
                                      completion_tokens |->
                                          geminiData["usageMetadata"].candidatesTokenCount,
                                      total_tokens |->
                                          geminiData["usageMetadata"].totalTokenCount]])
                 ELSE Marshal(openaiResponse)

\* ClaudeProvider.convertFromClaudeFormat
convertFromClaudeFormat(claudeResponse, now) ==
    LET parsed == Unmarshal(claudeResponse)
    IN  IF parsed.err THEN claudeResponse
        ELSE LET claudeData == parsed.data
                 openaiResponse ==
                     CanonicalResponse(claudeData["model"],
                                       extractClaudeContent(claudeData), now)
             IN  IF "usage" \in DOMAIN claudeData
                 THEN Marshal(openaiResponse @@ [usage |-> claudeData["usage"]])
                 ELSE Marshal(openaiResponse)

\* the chunks of a streamGenerateContent answer: each carries one partial
\* answer; together they are one JSON array, or, when the provider sends a
\* single element unframed, one JSON object
StreamChunks ==
    {GeminiData(<<[text |-> <<"a">>]>>, FALSE), GeminiData(<<[text |-> <<"b", "c">>]>>, TRUE)}

StreamBodies ==
    {[chunks |-> c, framing |-> "array"] :
        c \in UNION {[1..n -> StreamChunks] : n \in 1..MaxBlocks}}
    \cup {[chunks |-> <<c>>, framing |-> "object"] : c \in StreamChunks}

\* the bytes io.ReadAll returns once every chunk has been read
WholeBody(body) ==
    IF body.framing = "object" THEN JSONObject(body.chunks[1]) ELSE JSONArray

\* the events written to the client
DataEvent(payload) == [event |-> "data", payload |-> payload]
DoneEvent == [event |-> "data", payload |-> Text("[DONE]")]

\* ---------------------------------------------------- Engine.GetAverageCost
\* the loop "for i := start; i < len(costs); i++ { sum += costs[i] }", i counted
\* from 0 as in the source
RECURSIVE sumFrom(_, _, _)
sumFrom(costs, i, sum) ==
    IF i < Len(costs) THEN sumFrom(costs, i + 1, FAdd(sum, costs[i + 1])) ELSE sum

\* Engine.GetAverageCost: the value, whether it was found, and the clusters
\* map as the call leaves it
GetAverageCost(clusters, clusterName, lastN) ==
    IF clusterName \notin DOMAIN clusters
       \/ Len(clusters[clusterName].HistoricalCosts) = 0
    THEN [clusters |-> clusters, ret |-> Float(0), ok |-> FALSE]
    ELSE LET costs == clusters[clusterName].HistoricalCosts
             n == IF lastN > Len(costs) THEN Len(costs) ELSE lastN
             start == Len(costs) - n
         IN  [clusters |-> clusters,
              ret |-> FDiv(sumFrom(costs, start, Float(0)), Float(n)),
              ok |-> TRUE]

\* histories of at most MaxCalcs costs, and the Engines holding them for "a"
CostHistories ==
    UNION {[1..n -> {Dec(1, 100), Dec(3, 100)}] :
              n \in 0..MaxCalcs}

EnginesWithHistory ==
    {EmptyMap}
    \cup {[k \in {"a"} |-> [NewClusterCost(WarmCost) EXCEPT !.HistoricalCosts = h]] :
             h \in CostHistories}

LastNs == {-1, 0, 1, 2, HistoryLimit}

\* ------------------------------------------------------------------ Router
\* config.Clusters[].CostPerHour of the configuration the Router runs with:
\* 0.36 $/h for "a", 0.72 $/h for "b"
ConfigCostOf(n) == IF n = "a" THEN Dec(36, 100) ELSE Dec(72, 100)

Strategies == {"cost", "latency", "external_first", "cluster_first", "hybrid", "other"}

Thresholds == {Dec(11, 1000)}

ClusterTarget(name, cost, metrics) ==
    [Name |-> name, Type |-> "cluster", Endpoint |-> EndpointOf(name), Cost |-> cost,
     IsHealthy |-> TRUE, LatencyP95 |-> metrics.LatencyP95,
     QueueDepth |-> metrics.QueueDepth]

ProviderTarget(name, cost) ==
    [Name |-> name, Type |-> "provider", Endpoint |-> "", Cost |-> cost,
     IsHealthy |-> TRUE, LatencyP95 |-> 0, QueueDepth |-> 0]

\* (mutant) the SLA test forgets the queue bound
withinSLA_LatencyOnly(metrics) ==
    metrics.LatencyP95 <= MaxLatencyMs

\* getAllTargets lines 539-540: the SLA test on a snapshot entry
withinSLA(metrics) ==
    /\ metrics.LatencyP95 <= MaxLatencyMs
    /\ metrics.QueueDepth <= MaxQueueDepth

\* index of the first target of the given type, 0 when there is none
RECURSIVE firstOfType(_, _, _)
firstOfType(targets, type, i) ==
    IF i > Len(targets) THEN 0
    ELSE IF targets[i].Type = type THEN i
    ELSE firstOfType(targets, type, i + 1)

\* (mutant) each target is compared with the first one, not with the cheapest so far
RECURSIVE cheapestFrom_AgainstFirst(_, _, _)
cheapestFrom_AgainstFirst(targets, i, cheapest) ==
    IF i > Len(targets) THEN cheapest
    ELSE cheapestFrom_AgainstFirst(targets, i + 1,
                      IF FLess(targets[i].Cost, targets[1].Cost)
                      THEN i ELSE cheapest)

\* (mutant) a later target of equal cost replaces the cheapest so far
RECURSIVE cheapestFrom_LastOnTies(_, _, _)
cheapestFrom_LastOnTies(targets, i, cheapest) ==
    IF i > Len(targets) THEN cheapest
    ELSE cheapestFrom_LastOnTies(targets, i + 1,
                      IF FLeq(targets[i].Cost, targets[cheapest].Cost)
                      THEN i ELSE cheapest)

\* the loop "for _, target := range targets[1:] { if target.Cost < cheapest.Cost }"
RECURSIVE cheapestFrom(_, _, _)
cheapestFrom(targets, i, cheapest) ==
    IF i > Len(targets) THEN cheapest
    ELSE cheapestFrom(targets, i + 1,
                      IF FLess(targets[i].Cost, targets[cheapest].Cost)
                      THEN i ELSE cheapest)

selectByCost(targets) ==
    [err |-> FALSE, index |-> cheapestFrom(targets, 2, 1), reason |-> "lowest_cost"]

\* (mutant) the latency comparison forgets the type test
RECURSIVE fastestFrom_AnyType(_, _, _)
fastestFrom_AnyType(targets, i, fastest) ==
    IF i > Len(targets) THEN fastest
    ELSE fastestFrom_AnyType(targets, i + 1,
                     IF targets[i].LatencyP95 < targets[fastest].LatencyP95
                     THEN i ELSE fastest)

\* the loop "for _, target := range targets[1:]" of selectByLatency
RECURSIVE fastestFrom(_, _, _)
fastestFrom(targets, i, fastest) ==
    IF i > Len(targets) THEN fastest
    ELSE fastestFrom(targets, i + 1,
                     IF /\ targets[i].Type = "cluster"
                        /\ targets[i].LatencyP95 < targets[fastest].LatencyP95
                     THEN i ELSE fastest)

selectByLatency(targets) ==
    [err |-> FALSE, index |-> fastestFrom(targets, 2, 1), reason |-> "lowest_latency"]

\* (mutant) no fallback to the clusters: an error when no provider is a candidate
selectExternalFirst_NoFallback(targets) ==
    LET i == firstOfType(targets, "provider", 1)
    IN  IF i # 0 THEN [err |-> FALSE, index |-> i, reason |-> "external_first"]
        ELSE [err |-> TRUE, index |-> 0, reason |-> "no healthy targets available"]

\* (mutant) the cheapest provider is returned in place of the first one
selectExternalFirst_ByCost(targets) ==
    LET i == cheapestFrom(targets, 2, 1)
    IN  [err |-> FALSE, index |-> i,
         reason |-> IF targets[i].Type = "provider" THEN "external_first"
                    ELSE "cluster_fallback"]

selectExternalFirst(targets) ==
    LET i == firstOfType(targets, "provider", 1)
    IN  IF i # 0 THEN [err |-> FALSE, index |-> i, reason |-> "external_first"]
        ELSE [err |-> FALSE, index |-> 1, reason |-> "cluster_fallback"]

\* (mutant) the cheapest candidate is returned in place of the first cluster
selectClusterFirst_ByCost(targets) ==
    LET i == cheapestFrom(targets, 2, 1)
    IN  [err |-> FALSE, index |-> i,
         reason |-> IF targets[i].Type = "cluster" THEN "cluster_first"
                    ELSE "external_fallback"]

\* (mutant) the fallback is tagged like the preferred case
selectClusterFirst_OneTag(targets) ==
    LET i == firstOfType(targets, "cluster", 1)
    IN  IF i # 0 THEN [err |-> FALSE, index |-> i, reason |-> "cluster_first"]
        ELSE [err |-> FALSE, index |-> 1, reason |-> "cluster_first"]

selectClusterFirst(targets) ==
    LET i == firstOfType(targets, "cluster", 1)
    IN  IF i # 0 THEN [err |-> FALSE, index |-> i, reason |-> "cluster_first"]
        ELSE [err |-> FALSE, index |-> 1, reason |-> "external_fallback"]

\* (mutant) the threshold test is < instead of <=
RECURSIVE cheapestClusterFrom_Strict(_, _, _, _)
cheapestClusterFrom_Strict(targets, threshold, i, cheapestCluster) ==
    IF i > Len(targets) THEN cheapestCluster
    ELSE cheapestClusterFrom_Strict(targets, threshold, i + 1,
            IF /\ targets[i].Type = "cluster"
               /\ FLess(targets[i].Cost, threshold)
               /\ \/ cheapestCluster = 0
                  \/ FLess(targets[i].Cost, targets[cheapestCluster].Cost)
            THEN i ELSE cheapestCluster)

\* selectHybrid's first loop: the cheapest cluster at or under the threshold
\* (0 stands for nil)
RECURSIVE cheapestClusterFrom(_, _, _, _)
cheapestClusterFrom(targets, threshold, i, cheapestCluster) ==
    IF i > Len(targets) THEN cheapestCluster
    ELSE cheapestClusterFrom(targets, threshold, i + 1,
            IF /\ targets[i].Type = "cluster"
               /\ FLeq(targets[i].Cost, threshold)
               /\ \/ cheapestCluster = 0
                  \/ FLess(targets[i].Cost, targets[cheapestCluster].Cost)
            THEN i ELSE cheapestCluster)

\* (mutant) the fallback returns the first candidate without comparing costs
selectHybrid_FallbackFirst(targets, threshold) ==
    LET cheapestCluster == cheapestClusterFrom(targets, threshold, 1, 0)
    IN  IF cheapestCluster # 0
        THEN [err |-> FALSE, index |-> cheapestCluster, reason |-> "hybrid_cluster"]
        ELSE [err |-> FALSE, index |-> 1, reason |-> "hybrid_cheapest"]

selectHybrid(targets, threshold) ==
    LET cheapestCluster == cheapestClusterFrom(targets, threshold, 1, 0)
    IN  IF cheapestCluster # 0
        THEN [err |-> FALSE, index |-> cheapestCluster, reason |-> "hybrid_cluster"]
        ELSE [err |-> FALSE, index |-> cheapestFrom(targets, 2, 1),
              reason |-> "hybrid_cheapest"]

\* selectTarget after getAllTargets returned targets
selectTarget(strategy, threshold, targets) ==
    IF Len(targets) = 0
    THEN [err |-> TRUE, index |-> 0, reason |-> "no healthy targets available"]
    ELSE CASE strategy = "cost" -> selectByCost(targets)
           [] strategy = "latency" -> selectByLatency(targets)
           [] strategy = "external_first" -> selectExternalFirst(targets)
           [] strategy = "cluster_first" -> selectClusterFirst(targets)
           [] OTHER -> selectHybrid(targets, threshold)

\* the counter increment each selector makes before it returns its target:
\* routingDecisions.WithLabelValues(target.Name, target.Type, reason).Inc()
recordDecision(m, targets, result) ==
    IF result.err THEN m
    ELSE [m EXCEPT !.routingDecisions =
            Inc(@, <<targets[result.index].Name, targets[result.index].Type,
                     result.reason>>)]

\* What a forward call can come to (Forwarder.Forward and the providers'
\* Forward have the same shape): err is the error returned, status the status
\* code passed to w.WriteHeader, 0 when the call returned before writing.
\* the status codes an upstream answers with: 200, or an error of its own,
\* passed through unchanged
UpstreamStatuses == {200, 500}

\* the call returned an error before it wrote anything: the request body
\* could not be read, or client.Do failed (connection refused, timeout, TLS
\* handshake failure, context cancelled)
NotForwarded == [err |-> TRUE, status |-> 0]

\* every outcome: NotForwarded, or a status written and then a copy of the
\* body that ended well or not
ForwardOutcomes ==
    {NotForwarded} \cup [err : BOOLEAN, status : UpstreamStatuses]

\* the response after a forward call: what the call wrote, if anything
forwardResponse(fwd) ==
    IF fwd.status = 0 THEN NoResponse ELSE [status |-> fwd.status, by |-> "upstream"]

\* net/http when the handler returns: a handler that wrote nothing has
\* answered 200 OK with an empty body
finishRequest(response) ==
    IF response.by = "none" THEN [status |-> 200, by |-> "implicit"] ELSE response

\* (mutant) a failed forward to a cluster marks that cluster unhealthy
healthAfterRequest_MarkFailed(clusters, forwards) ==
    [n \in DOMAIN clusters |->
        IF \E i \in DOMAIN forwards :
              forwards[i].Name = n /\ forwards[i].Type = "cluster" /\ forwards[i].err
        THEN MarkUnhealthyUpdate(clusters[n])
        ELSE clusters[n]]

\* the Checker's map after handleLLMRequest made the forward calls forwards:
\* the handler reads the Checker through GetHealthyMetrics (line 537) and
\* makes no other call on it, whatever the forward returned
healthAfterRequest(clusters, forwards) ==
    clusters

\* (mutant) a failed selection answers 503 without counting it
handleLLMRequestOutcome_Uncounted(result, targets, fwd, m) ==
    IF result.err
    THEN [metrics |-> m,
          forwards |-> <<>>,
          response |-> finishRequest([status |-> 503, by |-> "handler"])]
    ELSE LET target == targets[result.index]
             m1 == IF target.Type = "provider"
                   THEN [m EXCEPT !.externalAPIRequests =
                           Inc(@, <<target.Name, "unknown",
                                    IF fwd.err THEN "error" ELSE "success">>)]
                   ELSE m
             m2 == [m1 EXCEPT !.requestsTotal =
                      Inc(@, <<target.Name, IF fwd.err THEN "error" ELSE "success">>)]
         IN  [metrics |-> m2,
              forwards |-> <<[Name |-> target.Name, Type |-> target.Type,
                              err |-> fwd.err]>>,
              response |-> finishRequest(forwardResponse(fwd))]

\* handleLLMRequest lines 713-746, after selectTarget returned result: the
\* counters, the forward calls made and the response the client receives
handleLLMRequestOutcome(result, targets, fwd, m) ==
    IF result.err
    THEN [metrics |-> [m EXCEPT !.requestsTotal = Inc(@, <<"none", "503">>)],
          forwards |-> <<>>,
          response |-> finishRequest([status |-> 503, by |-> "handler"])]
    ELSE LET target == targets[result.index]
             m1 == IF target.Type = "provider"
                   THEN [m EXCEPT !.externalAPIRequests =
                           Inc(@, <<target.Name, "unknown",
                                    IF fwd.err THEN "error" ELSE "success">>)]
                   ELSE m
             m2 == [m1 EXCEPT !.requestsTotal =
                      Inc(@, <<target.Name, IF fwd.err THEN "error" ELSE "success">>)]
         IN  [metrics |-> m2,
              forwards |-> <<[Name |-> target.Name, Type |-> target.Type,
                              err |-> fwd.err]>>,
              response |-> finishRequest(forwardResponse(fwd))]

\* ---- actions of a request handler
\* handleLLMRequest up to getAllTargets line 537: GetHealthyMetrics, under the
\* Checker's read lock, hands the handler its copy of the healthy entries
getAllTargetsSnapshot ==
    /\ CanRLock
    /\ rsPc = "serving"
    /\ rqPc = "idle"
    /\ rqCount < MaxRequests
    /\ rqCount' = rqCount + 1
    /\ rqPc' = "targets"
    /\ rqAll' = hcClusters
    /\ rqSnap' = GetHealthyMetrics
    /\ lastOp' = Op("getAllTargets", "", TRUE)
    /\ UNCHANGED <<callVars, healthVars, costVars, ticks, configVars, loopVars, cancelVars,
                   rqSeen, rqProvOk, rqTargets, rqResult, rqForwards, rqResponse,
                   routerMetrics>>

\* getAllTargets lines 538-560: one round of the loop over healthyMetrics (a
\* Go map: any entry not visited yet can be the next); an entry within the SLA
\* gets its cost from the Engine, under the Engine's lock, and becomes a target
getAllTargetsCluster(name) ==
    /\ rqPc = "targets"
    /\ name \in DOMAIN rqSnap \ rqSeen
    /\ rqSeen' = rqSeen \cup {name}
    /\ IF withinSLA(rqSnap[name])
       THEN LET r == CalculateCostPer1KTokens(ceClusters, ceOverhead, name,
                                              rqSnap[name].TokensPerSecond, ceNow + 1)
            IN  /\ ceClusters' = r.clusters
                /\ ceNow' = ceNow + 1
                /\ ceLog' = IF IsInf(r.ret) THEN ceLog
                            ELSE [ceLog EXCEPT ![name] = Append(@, r.ret)]
                /\ rqTargets' = Append(rqTargets, ClusterTarget(name, r.ret, rqSnap[name]))
                /\ lastOp' = CostOp("getAllTargetsCluster", name, TRUE,
                                    rqSnap[name].TokensPerSecond, r.ret)
       ELSE /\ UNCHANGED <<ceClusters, ceNow, ceLog, rqTargets>>
            /\ lastOp' = Op("getAllTargetsCluster", name, FALSE)
    /\ UNCHANGED <<callVars, healthVars, ticks, ceOverhead, configVars, loopVars, cancelVars,
                   rqPc, rqAll, rqSnap, rqProvOk, rqResult, rqForwards, rqResponse,
                   rqCount, routerMetrics>>

\* getAllTargets lines 564-587: one round of the loop over the registered
\* providers (a Go map again), entered when the loop over the clusters is
\* over: provider.Health(ctx) comes back from its HTTP round trip with resp
\* (an error once ctx is cancelled) and a healthy provider becomes a target
getAllTargetsProvider(p, resp) ==
    /\ rqPc = "targets"
    /\ DOMAIN rqSnap \subseteq rqSeen
    /\ p \in cfgProviders \ rqSeen
    /\ rqCtxDone => resp.transportErr
    /\ rqSeen' = rqSeen \cup {p}
    /\ LET healthy == ~Health(p, resp).err
       IN  /\ rqProvOk' = IF healthy THEN rqProvOk \cup {p} ELSE rqProvOk
           /\ rqTargets' = IF healthy
                           THEN Append(rqTargets, ProviderTarget(p, KnownProviderCosts[p]))
                           ELSE rqTargets
           /\ lastOp' = Op("getAllTargetsProvider", p, healthy)
    /\ UNCHANGED <<callVars, healthVars, costVars, ticks, configVars, loopVars, cancelVars,
                   rqPc, rqAll, rqSnap, rqResult, rqForwards, rqResponse, rqCount,
                   routerMetrics>>

\* selectTarget lines 510-530, once getAllTargets has returned: the configured
\* strategy picks a target and counts its decision
selectTargetReturn ==
    /\ rqPc = "targets"
    /\ DOMAIN rqSnap \cup cfgProviders \subseteq rqSeen
    /\ rqPc' = "selected"
    /\ rqResult' = selectTarget(cfgStrategy, cfgThreshold, rqTargets)
    /\ routerMetrics' = recordDecision(routerMetrics, rqTargets,
                                       selectTarget(cfgStrategy, cfgThreshold, rqTargets))
    /\ lastOp' = Op("selectTarget", "", Len(rqTargets) # 0)
    /\ UNCHANGED <<callVars, healthVars, costVars, ticks, configVars, loopVars, cancelVars,
                   rqSeen, rqAll, rqSnap, rqProvOk, rqTargets, rqForwards, rqResponse,
                   rqCount>>

\* handleLLMRequest lines 714-718: selectTarget failed, the handler answers
\* 503, counts the request and returns
handleLLMRequestUnavailable ==
    /\ rqPc = "selected"
    /\ rqResult.err
    /\ rqPc' = "done"
    /\ LET out == handleLLMRequestOutcome(rqResult, rqTargets, NotForwarded, routerMetrics)
       IN  /\ routerMetrics' = out.metrics
           /\ rqForwards' = out.forwards
           /\ rqResponse' = out.response
    /\ lastOp' = Op("Unavailable", "", FALSE)
    /\ UNCHANGED <<callVars, healthVars, costVars, ticks, configVars, loopVars, cancelVars,
                   rqSeen, rqAll, rqSnap, rqProvOk, rqTargets, rqResult, rqCount>>

\* the context the outbound request is built with: Forwarder.Forward uses
\* http.NewRequest (context.Background()), the providers' Forward use
\* http.NewRequestWithContext(ctx, ...) with ctx = req.Context()
outboundContext(type) ==
    IF type = "cluster" THEN "background" ELSE "request"

\* the outbound call in flight sees its context cancelled
OutboundCancelled ==
    rqOutCtx = "request" /\ rqCtxDone

\* handleLLMRequest lines 721-727 up to client.Do / httpClient.Do: the
\* outbound call to the selected target is in flight
ForwardBegin ==
    /\ rqPc = "selected"
    /\ ~rqResult.err
    /\ rqPc' = "forwarding"
    /\ rqOutCtx' = outboundContext(rqTargets[rqResult.index].Type)
    /\ lastOp' = Op("ForwardBegin", rqTargets[rqResult.index].Name, TRUE)
    /\ UNCHANGED <<callVars, healthVars, costVars, ticks, configVars, loopVars, rqSeen,
                   rqAll, rqSnap, rqProvOk, rqTargets, rqResult, rqForwards, rqResponse,
                   rqCount, rqCtxDone, routerMetrics>>

\* net/http: the client's connection is closed while the handler runs,
\* req.Context() is cancelled
ClientDisconnect ==
    /\ rqPc \in {"targets", "selected", "forwarding", "copying"}
    /\ ~rqCtxDone
    /\ rqCtxDone' = TRUE
    /\ lastOp' = Op("ClientDisconnect", "", TRUE)
    /\ UNCHANGED <<callVars, healthVars, costVars, ticks, configVars, loopVars, rqPc, rqSeen,
                   rqAll, rqSnap, rqProvOk, rqTargets, rqResult, rqForwards, rqResponse,
                   rqCount, rqOutCtx, routerMetrics>>

\* Forward: the request body could not be read or client.Do returned an error
\* (always so when the context of the call is cancelled); Forward returns it
\* with nothing written, and handleLLMRequest counts the failure and returns
ForwardFail ==
    /\ rqPc = "forwarding"
    /\ rqPc' = "done"
    /\ rqOutCtx' = "none"
    /\ LET out == handleLLMRequestOutcome(rqResult, rqTargets, NotForwarded, routerMetrics)
       IN  /\ routerMetrics' = out.metrics
           /\ rqForwards' = out.forwards
           /\ rqResponse' = out.response
           /\ hcClusters' = healthAfterRequest(hcClusters, out.forwards)
    /\ lastOp' = Op("Forward", rqTargets[rqResult.index].Name, FALSE)
    /\ UNCHANGED <<callVars, hcMu, hcPc, hcChecks, ctxDone, costVars, ticks, configVars,
                   loopVars, rqSeen, rqAll, rqSnap, rqProvOk, rqTargets, rqResult, rqCount,
                   rqCtxDone>>

\* Forward: client.Do returned the upstream's response; its headers and its
\* status code are written to the client, the copy of the body begins
ForwardStatus(status) ==
    /\ rqPc = "forwarding"
    /\ ~OutboundCancelled
    /\ rqPc' = "copying"
    /\ rqResponse' = [status |-> status, by |-> "upstream"]
    /\ lastOp' = Op("ForwardStatus", rqTargets[rqResult.index].Name, TRUE)
    /\ UNCHANGED <<callVars, healthVars, costVars, ticks, configVars, loopVars, cancelVars,
                   rqSeen, rqAll, rqSnap, rqProvOk, rqTargets, rqResult, rqForwards,
                   rqCount, routerMetrics>>

\* Forward: the copy of the body has ended, with an error or not; Forward
\* returns and handleLLMRequest counts the outcome and returns.  A client gone
\* during the copy may or may not have made it fail.
ForwardEnd(err) ==
    /\ rqPc = "copying"
    /\ rqPc' = "done"
    /\ rqOutCtx' = "none"
    /\ LET fwd == [err |-> err, status |-> rqResponse.status]
           out == handleLLMRequestOutcome(rqResult, rqTargets, fwd, routerMetrics)
       IN  /\ routerMetrics' = out.metrics
           /\ rqForwards' = out.forwards
           /\ rqResponse' = out.response
           /\ hcClusters' = healthAfterRequest(hcClusters, out.forwards)
    /\ lastOp' = Op("Forward", rqTargets[rqResult.index].Name, ~err)
    /\ UNCHANGED <<callVars, hcMu, hcPc, hcChecks, ctxDone, costVars, ticks, configVars,
                   loopVars, rqSeen, rqAll, rqSnap, rqProvOk, rqTargets, rqResult, rqCount,
                   rqCtxDone>>

\* handleLLMRequest has returned and the response is complete: its locals are gone
handleLLMRequestReturn ==
    /\ rqPc = "done"
    /\ rqPc' = "idle"
    /\ rqSeen' = {}
    /\ rqAll' = EmptyMap
    /\ rqSnap' = EmptyMap
    /\ rqProvOk' = {}
    /\ rqTargets' = <<>>
    /\ rqResult' = NoResult
    /\ rqForwards' = <<>>
    /\ rqResponse' = NoResponse
    /\ rqCtxDone' = FALSE
    /\ rqOutCtx' = "none"
    /\ lastOp' = Op("handleLLMRequest", "", ~rqResult.err)
    /\ UNCHANGED <<callVars, healthVars, costVars, ticks, configVars, loopVars, rqCount, routerMetrics>>

\* ------------------------------------------------- background loops, shutdown
\* config.Clusters in the order of the configuration file
ConfigClusters == <<"a", "b">>

\* GaugeVec.WithLabelValues(labels...).Set(v)
SetGauge(gauge, labels, v) ==
    [l \in DOMAIN gauge \cup {labels} |-> IF l = labels THEN v ELSE gauge[l]]

\* refreshMetrics lines 823-827: the health gauge of a configured cluster
clusterHealthGauge(allMetrics, name, m) ==
    LET up == IF name \in DOMAIN allMetrics /\ allMetrics[name].Healthy THEN 1 ELSE 0
    IN  [m EXCEPT !.clusterHealth = SetGauge(@, name, up)]

\* refreshMetrics lines 838-849: the gauges of one registered provider, whose
\* Health call succeeded (healthy) or not
providerGauges(p, healthy, m) ==
    LET priced == {<<p, model>> : model \in DOMAIN GetModelPricing(p)}
    IN  [m EXCEPT
           !.providerHealth = SetGauge(@, p, IF healthy THEN 1 ELSE 0),
           !.providerCost = [l \in DOMAIN @ \cup priced |->
                               IF l \in priced THEN KnownAverageCosts[l[1]][l[2]]
                               ELSE @[l]]]

\* the index of the next cluster of config.Clusters the loop of refreshMetrics
\* visits, 0 when the loop is over
nextConfigCluster(seen) ==
    IF \A i \in 1..Len(ConfigClusters) : ConfigClusters[i] \in seen THEN 0
    ELSE CHOOSE i \in 1..Len(ConfigClusters) :
            /\ ConfigClusters[i] \notin seen
            /\ \A j \in 1..(i - 1) : ConfigClusters[j] \in seen

\* Router.Start up to <-ctx.Done(): both loops are started, the server listens
RouterStart ==
    /\ rsPc = "new"
    /\ rsPc' = "serving"
    /\ lastOp' = Op("RouterStart", "", TRUE)
    /\ UNCHANGED <<callVars, healthVars, ticks, costVars, configVars, umPc, umTicks, umAll,
                   umSeen, umCost, requestVars, routerMetrics>>

\* Router.Start after <-ctx.Done(): srv.Shutdown (which waits for the requests
\* in flight for 30 s at most), then return
RouterStartReturn ==
    /\ rsPc = "serving"
    /\ ctxDone
    /\ rsPc' = "returned"
    /\ lastOp' = Op("RouterStartReturn", "", TRUE)
    /\ UNCHANGED <<callVars, healthVars, ticks, costVars, configVars, umPc, umTicks, umAll,
                   umSeen, umCost, requestVars, routerMetrics>>

\* the goroutine of updateMetrics reaches its select
updateMetricsStart ==
    /\ rsPc # "new"
    /\ umPc = "new"
    /\ umPc' = "wait"
    /\ lastOp' = Op("updateMetricsStart", "", TRUE)
    /\ UNCHANGED <<callVars, healthVars, ticks, costVars, configVars, rsPc, umTicks, umAll,
                   umSeen, umCost, requestVars, routerMetrics>>

\* updateMetrics: case <-ticker.C; refreshMetrics begins and GetAllMetrics,
\* under the Checker's read lock, hands it its copy of the map (MaxTicks
\* bounds the rounds of the two loops together)
updateMetricsTick ==
    /\ umPc = "wait"
    /\ CanRLock
    /\ ticks + umTicks < MaxTicks
    /\ umTicks' = umTicks + 1
    /\ umPc' = "refresh"
    /\ umAll' = GetAllMetrics
    /\ umSeen' = {}
    /\ lastOp' = Op("updateMetricsTick", "", TRUE)
    /\ UNCHANGED <<callVars, healthVars, ticks, costVars, configVars, rsPc, umCost,
                   requestVars, routerMetrics>>

\* refreshMetrics line 829: whether the round of cluster name asks the Engine
\* for a cost
refreshMetricsHasThroughput(name) ==
    name \in DOMAIN umAll /\ umAll[name].TokensPerSecond > 0

\* refreshMetrics lines 819-829: a round of the loop over config.Clusters, in
\* the order of the configuration, begins: the health gauge is set; a cluster
\* without a throughput ends its round here
refreshMetricsHealth ==
    /\ umPc = "refresh"
    /\ nextConfigCluster(umSeen) # 0
    /\ LET name == ConfigClusters[nextConfigCluster(umSeen)]
       IN  /\ routerMetrics' = clusterHealthGauge(umAll, name, routerMetrics)
           /\ IF refreshMetricsHasThroughput(name)
              THEN umPc' = "cost" /\ umSeen' = umSeen
              ELSE umPc' = "refresh" /\ umSeen' = umSeen \cup {name}
           /\ lastOp' = Op("refreshMetricsHealth", name, refreshMetricsHasThroughput(name))
    /\ UNCHANGED <<callVars, healthVars, ticks, costVars, configVars, rsPc, umTicks, umAll,
                   umCost, requestVars>>

\* refreshMetrics line 830: costEngine.CalculateCostPer1KTokens, the Engine's
\* locked section, answers with the cost of the round's cluster
refreshMetricsCost ==
    /\ umPc = "cost"
    /\ LET name == ConfigClusters[nextConfigCluster(umSeen)]
           r == CalculateCostPer1KTokens(ceClusters, ceOverhead, name,
                                         umAll[name].TokensPerSecond, ceNow + 1)
       IN  /\ ceClusters' = r.clusters
           /\ ceNow' = ceNow + 1
           /\ ceLog' = IF IsInf(r.ret) THEN ceLog
                       ELSE [ceLog EXCEPT ![name] = Append(@, r.ret)]
           /\ umCost' = r.ret
           /\ lastOp' = CostOp("refreshMetricsCost", name, TRUE,
                               umAll[name].TokensPerSecond, r.ret)
    /\ umPc' = "gauge"
    /\ UNCHANGED <<callVars, healthVars, ticks, ceOverhead, configVars, rsPc, umTicks,
                   umAll, umSeen, requestVars, routerMetrics>>

\* refreshMetrics line 831: the cost gauge is set to the Engine's answer and
\* the round of the cluster is over
refreshMetricsGauge ==
    /\ umPc = "gauge"
    /\ LET name == ConfigClusters[nextConfigCluster(umSeen)]
       IN  /\ routerMetrics' =
                [routerMetrics EXCEPT !.clusterCost = SetGauge(@, name, umCost)]
           /\ umSeen' = umSeen \cup {name}
           /\ lastOp' = Op("refreshMetricsGauge", name, TRUE)
    /\ umPc' = "refresh"
    /\ umCost' = FZero
    /\ UNCHANGED <<callVars, healthVars, ticks, costVars, configVars, rsPc, umTicks, umAll,
                   requestVars>>

\* refreshMetrics lines 836-850: one round of the loop over the registered
\* providers (a Go map), entered when the loop over the clusters is over:
\* provider.Health(context.Background()) comes back from its HTTP round trip
\* with resp, then the gauges of the provider are set
refreshMetricsProvider(p, resp) ==
    /\ umPc = "refresh"
    /\ nextConfigCluster(umSeen) = 0
    /\ p \in cfgProviders \ umSeen
    /\ umSeen' = umSeen \cup {p}
    /\ routerMetrics' = providerGauges(p, ~Health(p, resp).err, routerMetrics)
    /\ lastOp' = Op("refreshMetricsProvider", p, ~Health(p, resp).err)
    /\ UNCHANGED <<callVars, healthVars, ticks, costVars, configVars, umPc, rsPc, umTicks,
                   umAll, umCost, requestVars>>

\* refreshMetrics returns, updateMetrics is back at its select
refreshMetricsReturn ==
    /\ umPc = "refresh"
    /\ nextConfigCluster(umSeen) = 0
    /\ cfgProviders \subseteq umSeen
    /\ umPc' = "wait"
    /\ umAll' = EmptyMap
    /\ umSeen' = {}
    /\ lastOp' = Op("refreshMetrics", "", TRUE)
    /\ UNCHANGED <<callVars, healthVars, ticks, costVars, configVars, rsPc, umTicks,
                   umCost, requestVars, routerMetrics>>

\* updateMetrics: case <-ctx.Done()
updateMetricsReturn ==
    /\ umPc = "wait"
    /\ ctxDone
    /\ umPc' = "returned"
    /\ lastOp' = Op("updateMetricsReturn", "", TRUE)
    /\ UNCHANGED <<callVars, healthVars, ticks, costVars, configVars, rsPc, umTicks, umAll,
                   umSeen, umCost, requestVars, routerMetrics>>

\* the goroutine of Checker.Start runs its initial check
CheckerGo == rsPc # "new" /\ CheckerStart /\ ticks' = ticks + 1

\* MaxTicks bounds the rounds of the two loops together
CheckerNextTick == ticks + umTicks < MaxTicks /\ CheckerTick /\ ticks' = ticks + 1

\* the probe answers that matter to the loops: no answer, health without
\* stats, health with stats
LoopProbeResponses ==
    {resp \in ProbeResponses :
        ~resp.statsOK \/ (resp.QueueDepth = 2 /\ resp.TokensPerSecond = 20)}

\* a check of the current round enters its first locked section
CheckerProbeBegin == \E n \in Names : checkClusterBegin(n)

\* a probe answers and its check applies the result
CheckerProbeApply == \E n \in Names, resp \in LoopProbeResponses : checkClusterApply(n, resp)

\* a round of refreshMetrics goes on: a step of its next cluster, or a
\* provider's answer
refreshMetricsStep ==
    \/ refreshMetricsHealth
    \/ refreshMetricsCost
    \/ refreshMetricsGauge
    \/ \E p \in ProviderTypes, resp \in HealthResponses : refreshMetricsProvider(p, resp)

\* ---- the Router: NewRouter(config) with the "cost" strategy, then
\* Start's two loops next to the request handler
RouterInit ==
    /\ hcClusters = [n \in Names |-> NewClusterMetrics(EndpointOf(n))]
    /\ hcPc = "new"
    /\ hcChecks = EmptyMap
    /\ hcMu = Unlocked
    /\ ctxDone = FALSE
    /\ umPc = "new"
    /\ rsPc = "serving"
    /\ umTicks = 0
    /\ umAll = EmptyMap
    /\ umSeen = {}
    /\ umCost = FZero
    /\ ceClusters = [n \in Names |-> NewClusterCost(ConfigCostOf(n))]
    /\ ceOverhead = DefaultOverhead
    /\ ceNow = 0
    /\ ceLog = [n \in Names |-> <<>>]
    /\ ticks = 0
    /\ cfgStrategy = "cost"
    /\ cfgThreshold \in Thresholds
    /\ cfgProviders \in RouterProviderSets
    /\ cfgEnableExternalFallback = TRUE
    /\ RequestIdle
    /\ routerMetrics = NoMetrics
    /\ callIn = NoCall
    /\ callOut = NotReturned
    /\ rqCount = 0
    /\ lastOp = NoOp

RouterNext ==
    \/ CheckerGo
    \/ CheckerNextTick
    \/ CheckerProbeBegin
    \/ CheckerProbeApply
    \/ checkAllClustersJoin
    \/ updateMetricsStart
    \/ updateMetricsTick
    \/ refreshMetricsStep
    \/ refreshMetricsReturn
    \/ getAllTargetsSnapshot
    \/ \E n \in Names : getAllTargetsCluster(n)
    \/ \E p \in ProviderTypes, resp \in HealthResponses : getAllTargetsProvider(p, resp)
    \/ selectTargetReturn
    \/ handleLLMRequestUnavailable
    \/ ForwardBegin
    \/ ForwardFail
    \/ \E status \in UpstreamStatuses : ForwardStatus(status)
    \/ \E err \in BOOLEAN : ForwardEnd(err)
    \/ handleLLMRequestReturn

RouterSpec == RouterInit /\ [][RouterNext]_vars

\* ---- request handling on its own: the Router while it drains.  The
\* shutdown signal has come after some rounds of the health loop, both loops
\* have taken their ctx.Done() case, and Router.Start, which got the same
\* signal, has yet to stop the server: no goroutine but Start's and the
\* handlers' is left to take a step.
\* the records a cluster registered by NewRouter can hold after k probes
RECURSIVE AfterProbes(_, _)
AfterProbes(n, k) ==
    IF k = 0 THEN {NewClusterMetrics(EndpointOf(n))}
    ELSE {checkClusterUpdate(c, performHealthCheck(resp)) :
            c \in AfterProbes(n, k - 1), resp \in ProbeResponses}

\* the state SelectSpec starts in, the fallback flag of the configuration aside
SelectConfigured ==
    /\ \E k \in 1..MaxTicks :
          /\ ticks = k
          /\ \E ma \in AfterProbes("a", k), mb \in AfterProbes("b", k) :
                hcClusters = [n \in Names |-> IF n = "a" THEN ma ELSE mb]
    /\ hcPc = "returned"
    /\ hcChecks = EmptyMap
    /\ hcMu = Unlocked
    /\ ctxDone = TRUE
    /\ umPc = "returned"
    /\ rsPc = "serving"
    /\ umTicks = 0
    /\ umAll = EmptyMap
    /\ umSeen = {}
    /\ umCost = FZero
    /\ ceClusters = [n \in Names |-> NewClusterCost(ConfigCostOf(n))]
    /\ ceOverhead = DefaultOverhead
    /\ ceNow = 0
    /\ ceLog = [n \in Names |-> <<>>]
    /\ cfgStrategy \in Strategies
    /\ cfgThreshold \in Thresholds
    /\ cfgProviders \in ProviderSets
    /\ RequestIdle
    /\ routerMetrics = NoMetrics
    /\ callIn = NoCall
    /\ callOut = NotReturned
    /\ rqCount = 0
    /\ lastOp = NoOp

SelectInit ==
    /\ SelectConfigured
    /\ cfgEnableExternalFallback = TRUE

SelectNext ==
    \/ RouterStartReturn
    \/ getAllTargetsSnapshot
    \/ \E n \in Names : getAllTargetsCluster(n)
    \/ \E p \in ProviderTypes, resp \in HealthResponses : getAllTargetsProvider(p, resp)
    \/ selectTargetReturn
    \/ handleLLMRequestUnavailable
    \/ ForwardBegin
    \/ ForwardFail
    \/ \E status \in UpstreamStatuses : ForwardStatus(status)
    \/ \E err \in BOOLEAN : ForwardEnd(err)
    \/ handleLLMRequestReturn

SelectSpec == SelectInit /\ [][SelectNext]_vars

\* the same Router configured with enableExternalFallback: false
FallbackInit ==
    /\ SelectConfigured
    /\ cfgEnableExternalFallback = FALSE

FallbackSpec == FallbackInit /\ [][SelectNext]_vars

\* ---- the same request handling with clients that may go away
ForwardNext ==
    \/ RouterStartReturn
    \/ getAllTargetsSnapshot
    \/ \E n \in Names : getAllTargetsCluster(n)
    \/ \E p \in ProviderTypes, resp \in HealthResponses : getAllTargetsProvider(p, resp)
    \/ selectTargetReturn
    \/ handleLLMRequestUnavailable
    \/ ForwardBegin
    \/ ClientDisconnect
    \/ ForwardFail
    \/ \E status \in UpstreamStatuses : ForwardStatus(status)
    \/ \E err \in BOOLEAN : ForwardEnd(err)
    \/ handleLLMRequestReturn

ForwardSpec == SelectInit /\ [][ForwardNext]_vars

\* ---- the router from main's router.Start(ctx) to its return: NewRouter's
\* state, the two loops, the shutdown signal
ShutdownInit ==
    /\ hcClusters = [n \in Names |-> NewClusterMetrics(EndpointOf(n))]
    /\ hcPc = "new"
    /\ hcChecks = EmptyMap
    /\ hcMu = Unlocked
    /\ ctxDone = FALSE
    /\ umPc = "new"
    /\ rsPc = "new"
    /\ umTicks = 0
    /\ umAll = EmptyMap
    /\ umSeen = {}
    /\ umCost = FZero
    /\ ceClusters = [n \in Names |-> NewClusterCost(ConfigCostOf(n))]
    /\ ceOverhead = DefaultOverhead
    /\ ceNow = 0
    /\ ceLog = [n \in Names |-> <<>>]
    /\ ticks = 0
    /\ cfgStrategy = "hybrid"
    /\ cfgThreshold = DefaultThreshold
    /\ cfgProviders = {"openai"}
    /\ cfgEnableExternalFallback = FALSE
    /\ RequestIdle
    /\ routerMetrics = NoMetrics
    /\ callIn = NoCall
    /\ callOut = NotReturned
    /\ rqCount = 0
    /\ lastOp = NoOp

ShutdownNext ==
    \/ RouterStart
    \/ Cancel
    \/ RouterStartReturn
    \/ CheckerGo
    \/ CheckerNextTick
    \/ CheckerProbeBegin
    \/ CheckerProbeApply
    \/ checkAllClustersJoin
    \/ CheckerReturn
    \/ updateMetricsStart
    \/ updateMetricsTick
    \/ refreshMetricsStep
    \/ refreshMetricsReturn
    \/ updateMetricsReturn

\* the goroutines are scheduled and probes and health calls answer (their
\* HTTP clients have timeouts): weak fairness; a select with ctx.Done() ready
\* takes that case sooner or later: strong fairness
ShutdownFairness ==
    /\ WF_vars(RouterStart)
    /\ WF_vars(CheckerGo)
    /\ WF_vars(CheckerProbeBegin)
    /\ WF_vars(CheckerProbeApply)
    /\ WF_vars(checkAllClustersJoin)
    /\ WF_vars(updateMetricsStart)
    /\ WF_vars(refreshMetricsStep)
    /\ WF_vars(refreshMetricsReturn)
    /\ SF_vars(CheckerReturn)
    /\ SF_vars(updateMetricsReturn)

ShutdownSpec == ShutdownInit /\ [][ShutdownNext]_vars /\ ShutdownFairness

\* -------------------------------------------------- cluster authentication
\* the files a configuration may name: a certificate and a key that load, a
\* file that does not exist, and no file name
Files == {"", "client.crt", "client.key", "missing.pem"}

\* tls.LoadX509KeyPair(certFile, keyFile) succeeds
LoadX509KeyPair(certFile, keyFile) ==
    certFile = "client.crt" /\ keyFile = "client.key"

\* the ClusterConfig entries of one cluster "a" that differ in authentication
ClusterAuthConfigs ==
    [Name : {"a"}, Endpoint : {EndpointOf("a")}, CostPerHour : {ConfigCostOf("a")},
     AuthType : {"", "hmac", "mtls"}, SharedSecret : {"", "s"},
     CertFile : Files, KeyFile : Files]

\* a ProviderConfig entry of config.ExternalProviders
ProviderConfig(name, type, enabled) == [Name |-> name, Type |-> type, Enabled |-> enabled]

\* the externalProviders lists NewRouter is tried with: none; one enabled and
\* one disabled; one of a type without adapter and one enabled
ExternalProviderLists ==
    { <<>>,
      <<ProviderConfig("openai", "openai", TRUE), ProviderConfig("claude", "claude", FALSE)>>,
      <<ProviderConfig("mistral", "mistral", TRUE), ProviderConfig("gemini", "gemini", TRUE)>> }

\* NewForwarder: no secret, no TLS configuration
NewForwarder == [hmacSecrets |-> EmptyMap, tlsConfigs |-> EmptyMap]

SetHMACAuth(f, clusterName, sharedSecret) ==
    [f EXCEPT !.hmacSecrets = MapPut(@, clusterName, sharedSecret)]

\* SetMTLSAuth: the forwarder afterwards and the error returned
SetMTLSAuth(f, clusterName, certFile, keyFile) ==
    IF ~LoadX509KeyPair(certFile, keyFile)
    THEN [err |-> TRUE, f |-> f]
    ELSE [err |-> FALSE,
          f |-> [f EXCEPT !.tlsConfigs = MapPut(@, clusterName, <<certFile, keyFile>>)]]

\* NewRouter lines 392-406, one cluster: the switch on AuthType; the error of
\* SetMTLSAuth is dropped
configureAuthentication(f, cluster) ==
    CASE cluster.AuthType = "hmac" ->
           SetHMACAuth(f, cluster.Name, cluster.SharedSecret)
      [] cluster.AuthType = "mtls" ->
           IF cluster.CertFile # "" /\ cluster.KeyFile # ""
           THEN SetMTLSAuth(f, cluster.Name, cluster.CertFile, cluster.KeyFile).f
           ELSE f
      [] OTHER -> f

\* getClientForCluster: the client a forward to clusterName goes through
getClientForCluster(f, clusterName) ==
    IF clusterName \notin DOMAIN f.tlsConfigs THEN "httpClient" ELSE "mtlsClient"

\* ProviderManager.RegisterProvider: pm.providers[provider.Name()] = provider
RegisterProvider(providers, provider) ==
    MapPut(providers, provider.Name, provider)

\* NewRouter lines 410-433: the loop over config.ExternalProviders from index
\* i; a disabled entry and an entry of a type without adapter are skipped,
\* the adapter of any other entry is registered under the entry's name
RECURSIVE registerProviders(_, _, _)
registerProviders(externalProviders, i, providers) ==
    IF i > Len(externalProviders) THEN providers
    ELSE LET providerConfig == externalProviders[i]
         IN  registerProviders(externalProviders, i + 1,
                IF providerConfig.Enabled /\ providerConfig.Type \in ProviderTypes
                THEN RegisterProvider(providers,
                                      [Name |-> providerConfig.Name,
                                       Type |-> providerConfig.Type])
                ELSE providers)

\* NewRouter for a configuration with the single cluster and the external
\* providers given: the cluster is registered with the Checker and with the
\* Engine, its authentication is configured, the providers are registered.
\* NewRouter has no error result, the Router is always returned; client is
\* the HTTP client a forward to the cluster would go through.
NewRouter(cluster, externalProviders) ==
    LET f == configureAuthentication(NewForwarder, cluster)
    IN  [constructed |-> TRUE,
         healthChecker |-> MapPut(EmptyMap, cluster.Name, NewClusterMetrics(cluster.Endpoint)),
         costEngine |-> MapPut(EmptyMap, cluster.Name, NewClusterCost(cluster.CostPerHour)),
         forwarder |-> f,
         providerManager |-> registerProviders(externalProviders, 1, EmptyMap),
         client |-> getClientForCluster(f, cluster.Name)]

\* ------------------------------------------------------- HMAC signatures
\* strings are sequences of one-character strings, so that they concatenate
\* and a single byte of them can be replaced
\* int64 in two's complement, four 16-bit limbs, least significant first
LimbBase == 65536

I64(n) == <<n % LimbBase, n \div LimbBase, 0, 0>>

I64Zero == <<0, 0, 0, 0>>

\* a - b modulo 2^64
I64Sub(a, b) ==
    LET d1 == a[1] - b[1]
        w1 == IF d1 < 0 THEN 1 ELSE 0
        d2 == a[2] - b[2] - w1
        w2 == IF d2 < 0 THEN 1 ELSE 0
        d3 == a[3] - b[3] - w2
        w3 == IF d3 < 0 THEN 1 ELSE 0
        d4 == a[4] - b[4] - w3
    IN  <<d1 % LimbBase, d2 % LimbBase, d3 % LimbBase, d4 % LimbBase>>

I64Neg(x) == I64Sub(I64Zero, x)

I64IsNeg(x) == x[4] >= LimbBase \div 2

\* x > k as signed numbers, 0 <= k < LimbBase
I64GreaterThan(x, k) ==
    ~I64IsNeg(x) /\ (x[4] # 0 \/ x[3] # 0 \/ x[2] # 0 \/ x[1] > k)

abs(x) == IF I64IsNeg(x) THEN I64Neg(x) ELSE x

Digits == <<"0", "1", "2", "3", "4", "5", "6", "7", "8", "9">>

DigitValue(c) == (CHOOSE i \in 1..10 : Digits[i] = c) - 1

IsDigit(c) == \E i \in 1..10 : Digits[i] = c

\* strconv.FormatInt(n, 10) for n >= 0
RECURSIVE FormatInt(_)
FormatInt(n) ==
    IF n < 10 THEN <<Digits[n + 1]>>
    ELSE Append(FormatInt(n \div 10), Digits[(n % 10) + 1])

\* mag * 10 + d as an unsigned 64-bit number, with the carry out of bit 63
MulAdd10(mag, d) ==
    LET p1 == mag[1] * 10 + d
        p2 == mag[2] * 10 + p1 \div LimbBase
        p3 == mag[3] * 10 + p2 \div LimbBase
        p4 == mag[4] * 10 + p3 \div LimbBase
    IN  [val |-> <<p1 % LimbBase, p2 % LimbBase, p3 % LimbBase, p4 % LimbBase>>,
         carry |-> p4 \div LimbBase]

\* the digits s[i..] accumulated onto mag: the magnitude, or overflow
RECURSIVE ParseUint(_, _, _)
ParseUint(s, i, mag) ==
    IF i > Len(s) THEN [err |-> FALSE, val |-> mag]
    ELSE IF ~IsDigit(s[i]) THEN [err |-> TRUE, val |-> I64Zero]
    ELSE LET r == MulAdd10(mag, DigitValue(s[i]))
         IN  IF r.carry # 0 THEN [err |-> TRUE, val |-> I64Zero]
             ELSE ParseUint(s, i + 1, r.val)

\* strconv.ParseInt(s, 10, 64)
ParseInt(s) ==
    IF Len(s) = 0 THEN [err |-> TRUE, val |-> I64Zero]
    ELSE LET neg == s[1] = "-"
             from == IF s[1] \in {"-", "+"} THEN 2 ELSE 1
             u == IF from > Len(s) THEN [err |-> TRUE, val |-> I64Zero]
                  ELSE ParseUint(s, from, I64Zero)
             min == <<0, 0, 0, LimbBase \div 2>>
         IN  IF u.err THEN u
             ELSE IF ~neg /\ I64IsNeg(u.val) THEN [err |-> TRUE, val |-> I64Zero]
             ELSE IF neg /\ I64IsNeg(u.val) /\ u.val # min THEN [err |-> TRUE, val |-> I64Zero]
             ELSE [err |-> FALSE, val |-> IF neg THEN I64Neg(u.val) ELSE u.val]

\* the sequences over alphabet of length lo..hi
SeqsOver(alphabet, lo, hi) ==
    UNION {[1..n -> alphabet] : n \in lo..hi}

\* hmac.New(sha256.New, secret), Write(data), hex.EncodeToString(Sum(nil)):
\* an ideal MAC, different (secret, data) pairs give different signatures;
\* "|" occurs in no secret
hmacSHA256(secret, data) ==
    <<"h">> \o secret \o <<"|">> \o data

\* http.Header.Get: the empty string for a header that is not set
HeaderGet(header, name) ==
    IF name \in DOMAIN header THEN header[name] ELSE <<>>

AuthTypeHMAC == <<"hmac-sha256">>

\* the string the signature is computed over
signatureData(timestamp, req, body) ==
    timestamp \o req.Method \o req.Path \o body

\* addHMACAuth at time now (seconds): the request with its three headers
addHMACAuth(req, secret, body, now) ==
    LET timestamp == FormatInt(now)
        signature == hmacSHA256(secret, signatureData(timestamp, req, body))
    IN  [req EXCEPT !.Header =
            [n \in DOMAIN @ \cup {"X-Timestamp", "X-Signature", "X-Auth-Type"} |->
                CASE n = "X-Timestamp" -> timestamp
                  [] n = "X-Signature" -> signature
                  [] n = "X-Auth-Type" -> AuthTypeHMAC
                  [] OTHER -> @[n]]]

\* a validator that checks the headers and the timestamp and compares no signature
ValidateHMACSignature_NoCompare(req, secret, body, now) ==
    LET timestamp == HeaderGet(req.Header, "X-Timestamp")
        signature == HeaderGet(req.Header, "X-Signature")
        authType == HeaderGet(req.Header, "X-Auth-Type")
        ts == ParseInt(timestamp)
    IN  IF timestamp = <<>> \/ signature = <<>> \/ authType # AuthTypeHMAC THEN FALSE
        ELSE IF ts.err THEN FALSE
        ELSE IF I64GreaterThan(abs(I64Sub(I64(now), ts.val)), ReplayWindow) THEN FALSE
        ELSE TRUE

\* ValidateHMACSignature at time now (seconds)
ValidateHMACSignature(req, secret, body, now) ==
    LET timestamp == HeaderGet(req.Header, "X-Timestamp")
        signature == HeaderGet(req.Header, "X-Signature")
        authType == HeaderGet(req.Header, "X-Auth-Type")
        ts == ParseInt(timestamp)
    IN  IF timestamp = <<>> \/ signature = <<>> \/ authType # AuthTypeHMAC THEN FALSE
        ELSE IF ts.err THEN FALSE
        ELSE IF I64GreaterThan(abs(I64Sub(I64(now), ts.val)), ReplayWindow) THEN FALSE
        ELSE signature = hmacSHA256(secret, signatureData(timestamp, req, body))

\* time.Now().Unix() of the signer
SignTime == 1700000000

\* the clock of the validator relative to the signer's
ClockOffsets == {-301, -300, 0, 300, 301}

Methods == {<<"P", "O", "S", "T">>, <<"G", "E", "T">>}

Paths == {<<"/">> \o p : p \in SeqsOver({"a", "/"}, 0, MaxLen - 1)}

Bodies == SeqsOver({"a", "/"}, 0, MaxLen)

Secrets == SeqsOver({"k", "l"}, 1, MaxLen)

\* the bytes a tampered byte is replaced by
TamperBytes == {"a", "/", "k", "l", "x"}

\* string s with its byte at position i replaced by c
ReplaceByte(s, i, c) == [s EXCEPT ![i] = c]

\* X-Timestamp values a crafted request may carry: around the window, far in
\* the past (SignTime - 2^63), not a number, absent
FarPast ==
    <<"-", "9", "2", "2", "3", "3", "7", "2", "0", "3", "5", "1", "5", "4", "7",
      "7", "5", "8", "0", "8">>

CraftedTimestamps ==
    {FormatInt(SignTime + d) : d \in ClockOffsets} \cup {FarPast, <<"x">>, <<>>}

\* a request signed for timestamp string t by someone who holds the secret
SignedFor(req, secret, body, t) ==
    [req EXCEPT !.Header =
        [n \in {"X-Timestamp", "X-Signature", "X-Auth-Type"} |->
            CASE n = "X-Timestamp" -> t
              [] n = "X-Signature" -> hmacSHA256(secret, signatureData(t, req, body))
              [] n = "X-Auth-Type" -> AuthTypeHMAC]]

Requests == [Method : Methods, Path : Paths, Header : {EmptyMap}]

\* the Forwarder signs callIn.req; the request travels with its body
addHMACAuthCall ==
    /\ callIn.fn = "addHMACAuth"
    /\ callOut = NotReturned
    /\ callOut' = [done |-> FALSE, tampered |-> "none",
                   req |-> addHMACAuth(callIn.req, callIn.secret, callIn.body, SignTime),
                   body |-> callIn.body, secret |-> callIn.secret]
    /\ lastOp' = Op("addHMACAuth", "", TRUE)
    /\ UNCHANGED <<callIn, healthVars, ticks, nonHealthVars>>

\* one byte of the travelling request's body or path, or of the secret the
\* validator holds, is replaced by another byte
TamperByte(what, i, c) ==
    /\ callIn.fn = "addHMACAuth"
    /\ ~callOut.done
    /\ "tampered" \in DOMAIN callOut
    /\ callOut.tampered = "none"
    /\ \/ /\ what = "body"
          /\ i \in 1..Len(callOut.body)
          /\ callOut.body[i] # c
          /\ callOut' = [callOut EXCEPT !.tampered = what, !.body = ReplaceByte(@, i, c)]
       \/ /\ what = "path"
          /\ i \in 1..Len(callOut.req.Path)
          /\ callOut.req.Path[i] # c
          /\ callOut' = [callOut EXCEPT !.tampered = what,
                                        !.req.Path = ReplaceByte(@, i, c)]
       \/ /\ what = "secret"
          /\ i \in 1..Len(callOut.secret)
          /\ callOut.secret[i] # c
          /\ callOut' = [callOut EXCEPT !.tampered = what, !.secret = ReplaceByte(@, i, c)]
    /\ lastOp' = Op("TamperByte", "", TRUE)
    /\ UNCHANGED <<callIn, healthVars, ticks, nonHealthVars>>

\* the last byte of the path travels as the first byte of the body instead
\* (toBody), or the first byte of the body as the last byte of the path
MoveBoundary(toBody) ==
    /\ callIn.fn = "addHMACAuth"
    /\ ~callOut.done
    /\ "tampered" \in DOMAIN callOut
    /\ callOut.tampered = "none"
    /\ LET path == callOut.req.Path
           body == callOut.body
       IN  IF toBody
           THEN /\ Len(path) > 1
                /\ callOut' = [callOut EXCEPT
                                  !.tampered = "boundary",
                                  !.req.Path = SubSeq(path, 1, Len(path) - 1),
                                  !.body = <<path[Len(path)]>> \o body]
           ELSE /\ Len(body) > 0
                /\ callOut' = [callOut EXCEPT
                                  !.tampered = "boundary",
                                  !.req.Path = Append(path, body[1]),
                                  !.body = Tail(body)]
    /\ lastOp' = Op("MoveBoundary", "", TRUE)
    /\ UNCHANGED <<callIn, healthVars, ticks, nonHealthVars>>

\* the receiving server validates the travelling request at its own time
ValidateSignedCall ==
    /\ callIn.fn = "addHMACAuth"
    /\ ~callOut.done
    /\ "tampered" \in DOMAIN callOut
    /\ callOut' = [callOut EXCEPT !.done = TRUE] @@
                  [ret |-> ValidateHMACSignature(callOut.req, callOut.secret,
                                                 callOut.body, SignTime + callIn.offset)]
    /\ lastOp' = Op("ValidateHMACSignature", "", TRUE)
    /\ UNCHANGED <<callIn, healthVars, ticks, nonHealthVars>>

\* the receiving server validates a crafted request at time SignTime
ValidateHMACSignatureCall ==
    /\ callIn.fn = "ValidateHMACSignature"
    /\ ~callOut.done
    /\ callOut' = Returned(ValidateHMACSignature(callIn.req, callIn.secret,
                                                 callIn.body, SignTime))
    /\ lastOp' = Op("ValidateHMACSignature", "", TRUE)
    /\ UNCHANGED <<callIn, healthVars, ticks, nonHealthVars>>

\* the calls about signatures
HMACInputs ==
    {[fn |-> "addHMACAuth", req |-> r, secret |-> k, body |-> b, offset |-> d] :
        r \in Requests, k \in Secrets, b \in Bodies, d \in ClockOffsets}
    \cup
    {[fn |-> "ValidateHMACSignature", req |-> SignedFor(r, k, b, t), secret |-> k,
      body |-> b, timestamp |-> t] :
        r \in Requests, k \in Secrets, b \in Bodies, t \in CraftedTimestamps}

\* ------------------------------------------------------- calls of functions
\* the calls followed: the function and its arguments
CallInputs ==
    {[fn |-> "NewRouter", cluster |-> c, externalProviders |-> ps] :
        c \in ClusterAuthConfigs, ps \in ExternalProviderLists}
    \cup HMACInputs
    \cup {[fn |-> "Health", type |-> t, resp |-> r] :
            t \in ProviderTypes, r \in HealthResponses}
    \cup {[fn |-> "CalculateCost", type |-> t, defaultModel |-> m,
           inputTokens |-> i, outputTokens |-> o] :
            t \in ProviderTypes, m \in DefaultModels, i \in TokenCounts, o \in TokenCounts}
    \cup {[fn |-> "convertToGeminiFormat", requestData |-> r] : r \in GeminiRequests}
    \cup {[fn |-> "convertFromGeminiFormat", response |-> r] : r \in GeminiResponses}
    \cup {[fn |-> "convertFromClaudeFormat", response |-> r] : r \in ClaudeResponses}
    \cup {[fn |-> "handleStreamingResponse", body |-> b] : b \in StreamBodies}
    \cup {[fn |-> "GetAverageCost", clusters |-> c, clusterName |-> n, lastN |-> k] :
            c \in EnginesWithHistory, n \in Names, k \in LastNs}

\* a provider adapter's health check, the provider answering callIn.resp
HealthCall ==
    /\ callIn.fn = "Health"
    /\ ~callOut.done
    /\ callOut' = Returned(Health(callIn.type, callIn.resp))
    /\ lastOp' = Op("Health", callIn.type, TRUE)
    /\ UNCHANGED <<callIn, healthVars, ticks, nonHealthVars>>

\* a provider adapter's cost estimate
CalculateCostCall ==
    /\ callIn.fn = "CalculateCost"
    /\ ~callOut.done
    /\ callOut' = Returned(CalculateCost(callIn.type, callIn.defaultModel,
                                         callIn.inputTokens, callIn.outputTokens))
    /\ lastOp' = Op("CalculateCost", callIn.type, TRUE)
    /\ UNCHANGED <<callIn, healthVars, ticks, nonHealthVars>>

\* the Gemini adapter translates a canonical request
convertToGeminiFormatCall ==
    /\ callIn.fn = "convertToGeminiFormat"
    /\ ~callOut.done
    /\ callOut' = Returned(convertToGeminiFormat(callIn.requestData, ""))
    /\ lastOp' = Op("convertToGeminiFormat", "", TRUE)
    /\ UNCHANGED <<callIn, healthVars, ticks, nonHealthVars>>

\* the Gemini adapter translates the provider's answer
convertFromGeminiFormatCall ==
    /\ callIn.fn = "convertFromGeminiFormat"
    /\ ~callOut.done
    /\ callOut' = Returned(convertFromGeminiFormat(callIn.response, "gemini-pro", SignTime))
    /\ lastOp' = Op("convertFromGeminiFormat", "", TRUE)
    /\ UNCHANGED <<callIn, healthVars, ticks, nonHealthVars>>

\* the Claude adapter translates the provider's answer
convertFromClaudeFormatCall ==
    /\ callIn.fn = "convertFromClaudeFormat"
    /\ ~callOut.done
    /\ callOut' = Returned(convertFromClaudeFormat(callIn.response, SignTime))
    /\ lastOp' = Op("convertFromClaudeFormat", "", TRUE)
    /\ UNCHANGED <<callIn, healthVars, ticks, nonHealthVars>>

\* handleStreamingResponse: the headers are written and io.ReadAll starts
handleStreamingResponseBegin ==
    /\ callIn.fn = "handleStreamingResponse"
    /\ callOut = NotReturned
    /\ callOut' = [done |-> FALSE, pc |-> "ReadAll", read |-> 0, events |-> <<>>]
    /\ lastOp' = Op("handleStreamingResponse", "", TRUE)
    /\ UNCHANGED <<callIn, healthVars, ticks, nonHealthVars>>

\* io.ReadAll reads the next chunk from the provider
handleStreamingResponseRead ==
    /\ callIn.fn = "handleStreamingResponse"
    /\ ~callOut.done
    /\ callOut # NotReturned
    /\ callOut.read < Len(callIn.body.chunks)
    /\ callOut' = [callOut EXCEPT !.read = @ + 1]
    /\ lastOp' = Op("Read", "", TRUE)
    /\ UNCHANGED <<callIn, healthVars, ticks, nonHealthVars>>

\* io.ReadAll fails: the error is returned, nothing is written
handleStreamingResponseReadError ==
    /\ callIn.fn = "handleStreamingResponse"
    /\ ~callOut.done
    /\ callOut # NotReturned
    /\ callOut.read < Len(callIn.body.chunks)
    /\ callOut' = [callOut EXCEPT !.done = TRUE, !.pc = "returned"] @@
                  [ret |-> [err |-> TRUE], completed |-> FALSE]
    /\ lastOp' = Op("Read", "", FALSE)
    /\ UNCHANGED <<callIn, healthVars, ticks, nonHealthVars>>

\* the provider has closed the body: the whole body is converted and written
\* as one event, then the sentinel
handleStreamingResponseWrite ==
    /\ callIn.fn = "handleStreamingResponse"
    /\ ~callOut.done
    /\ callOut # NotReturned
    /\ callOut.read = Len(callIn.body.chunks)
    /\ callOut' = [callOut EXCEPT
                      !.done = TRUE, !.pc = "returned",
                      !.events = <<DataEvent(convertFromGeminiFormat(
                                                 WholeBody(callIn.body), "gemini-pro", SignTime)),
                                   DoneEvent>>] @@
                  [ret |-> [err |-> FALSE], completed |-> TRUE]
    /\ lastOp' = Op("Write", "", TRUE)
    /\ UNCHANGED <<callIn, healthVars, ticks, nonHealthVars>>

\* a caller asks the Engine for an average
GetAverageCostCall ==
    /\ callIn.fn = "GetAverageCost"
    /\ ~callOut.done
    /\ callOut' = Returned(GetAverageCost(callIn.clusters, callIn.clusterName, callIn.lastN))
    /\ lastOp' = Op("GetAverageCost", "", TRUE)
    /\ UNCHANGED <<callIn, healthVars, ticks, nonHealthVars>>

\* main calls NewRouter(config): the Router it returns holds the Checker, the
\* Engine and the ProviderManager with the registrations made
NewRouterCall ==
    /\ callIn.fn = "NewRouter"
    /\ ~callOut.done
    /\ LET router == NewRouter(callIn.cluster, callIn.externalProviders)
       IN  /\ callOut' = Returned(router)
           /\ hcClusters' = router.healthChecker
           /\ ceClusters' = router.costEngine
           /\ ceLog' = [n \in DOMAIN router.costEngine |-> <<>>]
           /\ cfgProviders' = DOMAIN router.providerManager
    /\ lastOp' = Op("NewRouter", "", TRUE)
    /\ UNCHANGED <<callIn, hcPc, hcChecks, hcMu, ctxDone, ticks, ceOverhead, ceNow,
                   cfgStrategy, cfgThreshold, cfgEnableExternalFallback, loopVars,
                   requestVars, routerMetrics>>

CallInit ==
    /\ hcClusters = EmptyMap
    /\ hcPc = "new"
    /\ hcChecks = EmptyMap
    /\ hcMu = Unlocked
    /\ ctxDone = FALSE
    /\ umPc = "new"
    /\ rsPc = "new"
    /\ umTicks = 0
    /\ umAll = EmptyMap
    /\ umSeen = {}
    /\ umCost = FZero
    /\ ceClusters = EmptyMap
    /\ ceOverhead = DefaultOverhead
    /\ ceNow = 0
    /\ ceLog = EmptyMap
    /\ ticks = 0
    /\ cfgStrategy = "hybrid"
    /\ cfgThreshold = DefaultThreshold
    /\ cfgProviders = {}
    /\ cfgEnableExternalFallback = FALSE
    /\ RequestIdle
    /\ routerMetrics = NoMetrics
    /\ callIn \in CallInputs
    /\ callOut = NotReturned
    /\ rqCount = 0
    /\ lastOp = NoOp

CallNext ==
    \/ NewRouterCall
    \/ addHMACAuthCall
    \/ \E what \in {"body", "path", "secret"}, i \in 1..(MaxLen + 1), c \in TamperBytes :
          TamperByte(what, i, c)
    \/ ValidateSignedCall
    \/ ValidateHMACSignatureCall
    \/ HealthCall
    \/ CalculateCostCall
    \/ convertToGeminiFormatCall
    \/ convertFromGeminiFormatCall
    \/ convertFromClaudeFormatCall
    \/ handleStreamingResponseBegin
    \/ handleStreamingResponseRead
    \/ handleStreamingResponseReadError
    \/ handleStreamingResponseWrite
    \/ \E toBody \in BOOLEAN : MoveBoundary(toBody)
    \/ GetAverageCostCall

CallSpec == CallInit /\ [][CallNext]_vars

\* ================================================================ claims
\* a step flips cluster n from healthy to unhealthy
Flips(n) ==
    /\ n \in DOMAIN hcClusters
    /\ n \in DOMAIN hcClusters'
    /\ hcClusters[n].Healthy
    /\ ~hcClusters'[n].Healthy

\* the step is the application of a probe result to n (ok: the probe succeeded)
ProbeApplied(n, ok) ==
    /\ lastOp' = Op("checkCluster", n, ok)
    /\ n \in DOMAIN hcClusters
    /\ n \in DOMAIN hcClusters'

\* C1: across the probe results the polling loop applies to a cluster, healthy
\* goes from true to false only on a failed check that brings consecutiveErrors
\* to at least 3; a failed check that leaves consecutiveErrors at 1 or 2
\* increments errorCount and consecutiveErrors and leaves healthy unchanged.
C1_FailHysteresis ==
    [][\A n \in Names :
         /\ ProbeApplied(n, TRUE) => ~Flips(n)
         /\ ProbeApplied(n, FALSE) =>
              /\ Flips(n) => hcClusters'[n].ConsecutiveError >= 3
              /\ hcClusters'[n].ConsecutiveError \in {1, 2} =>
                   /\ hcClusters'[n].ErrorCount = hcClusters[n].ErrorCount + 1
                   /\ hcClusters'[n].ConsecutiveError = hcClusters[n].ConsecutiveError + 1
                   /\ hcClusters'[n].Healthy = hcClusters[n].Healthy]_vars

\* a failed probe has just flipped a healthy cluster, on its third consecutive error
C1_Witness ==
    \E n \in DOMAIN hcClusters :
        /\ LastWas("checkCluster", n, FALSE, TRUE)
        /\ ~hcClusters[n].Healthy
        /\ hcClusters[n].ConsecutiveError = 3

\* C2 (as claimed): over every sequence of Health Monitor operations, a cluster
\* flips from healthy to unhealthy only in a step after which
\* consecutiveErrors = 3 exactly.
C2_Original ==
    [][\A n \in Names : Flips(n) => hcClusters'[n].ConsecutiveError = 3]_vars

\* C2 (amended): a cluster flips from healthy to unhealthy only in (a) a failed
\* probe, after which consecutiveErrors = 3 exactly, (b) a markUnhealthy call,
\* after which consecutiveErrors is 1, 2 or 3, or (c) a registration of the same
\* name again, which resets the record (consecutiveErrors = 0).
C2_FlipOnlyByProbeAt3OrOverride ==
    [][\A n \in Names : Flips(n) =>
         \/ /\ lastOp' = Op("checkCluster", n, FALSE)
            /\ hcClusters'[n].ConsecutiveError = 3
         \/ /\ lastOp' = Op("MarkUnhealthy", n, TRUE)
            /\ hcClusters'[n].ConsecutiveError \in {1, 2, 3}
         \/ /\ lastOp' = Op("AddCluster", n, TRUE)
            /\ hcClusters'[n].ConsecutiveError = 0]_vars

\* a failed probe has flipped a healthy cluster that had recovered from an
\* earlier error: three consecutive errors, four errors in all
C2_Witness ==
    \E n \in DOMAIN hcClusters :
        /\ LastWas("checkCluster", n, FALSE, TRUE)
        /\ ~hcClusters[n].Healthy
        /\ hcClusters[n].ConsecutiveError = 3
        /\ hcClusters[n].ErrorCount = 4

\* C3: from any cluster state, one successful health check yields healthy = true
\* and consecutiveErrors = 0 in that same step and leaves errorCount unchanged.
C3_ImmediateRecovery ==
    [][\A n \in Names : ProbeApplied(n, TRUE) =>
         /\ hcClusters'[n].Healthy
         /\ hcClusters'[n].ConsecutiveError = 0
         /\ hcClusters'[n].ErrorCount = hcClusters[n].ErrorCount]_vars

\* a successful probe has just been applied to a cluster that was unhealthy
\* after three or more errors
C3_Witness ==
    \E n \in DOMAIN hcClusters :
        /\ LastWas("checkCluster", n, TRUE, FALSE)
        /\ hcClusters[n].Healthy
        /\ hcClusters[n].ConsecutiveError = 0
        /\ hcClusters[n].ErrorCount >= 3


\* the last k entries of seq, in order (all of it when it has fewer)
LastN(seq, k) ==
    IF Len(seq) <= k THEN seq ELSE SubSeq(seq, Len(seq) - k + 1, Len(seq))

\* C4: for every registered target, after any interleaving of cost
\* computations, the history holds at most 100 entries and is the most recent
\* min(n, 100) successfully computed values in insertion order (so the 101st
\* insertion evicts exactly the oldest entry).
C4_HistoryBoundedFifo ==
    \A n \in DOMAIN ceClusters :
        /\ Len(ceClusters[n].HistoricalCosts) <= 100
        /\ ceClusters[n].HistoricalCosts = LastN(ceLog[n], 100)

\* a computation has just pushed the history past 100 insertions, evicting an
\* oldest entry that differs from the newest one
C4_Witness ==
    \E n \in DOMAIN ceClusters :
        /\ lastOp.op = "Calculate"
        /\ lastOp.name = n
        /\ lastOp.ok
        /\ Len(ceLog[n]) > 100
        /\ Len(ceClusters[n].HistoricalCosts) = 100
        /\ ceLog[n][1] # ceLog[n][Len(ceLog[n])]

\* C6: a cost computation for a registered target with tokensPerSecond > 0
\* appends exactly one history entry equal to the returned value and sets
\* lastTokensPerSec to the argument; with tokensPerSecond <= 0 or an
\* unregistered target it returns +Inf and leaves every target's costPerHour,
\* history and lastTokensPerSec unchanged.
C6_StateChangesIffSuccessful ==
    [][(lastOp'.op = "Calculate" /\ ceNow' = ceNow + 1) =>
         LET n == lastOp'.name
             tps == lastOp'.tps
             ret == lastOp'.cost
         IN  IF n \in DOMAIN ceClusters /\ tps > 0
             THEN /\ DOMAIN ceClusters' = DOMAIN ceClusters
                  /\ ceClusters'[n].HistoricalCosts =
                        IF Len(ceClusters[n].HistoricalCosts) < 100
                        THEN Append(ceClusters[n].HistoricalCosts, ret)
                        ELSE Append(Tail(ceClusters[n].HistoricalCosts), ret)
                  /\ ceClusters'[n].LastTokensPerSec = tps
                  /\ ceClusters'[n].CostPerHour = ceClusters[n].CostPerHour
                  /\ \A m \in DOMAIN ceClusters \ {n} : ceClusters'[m] = ceClusters[m]
             ELSE /\ ret = Inf
                  /\ ceClusters' = ceClusters]_vars

\* a computation with a non-positive throughput has just been refused for a
\* registered target that already has a history
C6_Witness ==
    \E n \in DOMAIN ceClusters :
        /\ lastOp.op = "Calculate"
        /\ lastOp.name = n
        /\ lastOp.tps <= 0
        /\ lastOp.cost = Inf
        /\ ceClusters[n].LastTokensPerSec > 0
        /\ Len(ceClusters[n].HistoricalCosts) > 0

\* C7: for every registered target and tokensPerSecond > 0 the computed cost is
\* costPerHour / (tokensPerSecond * 3600) * overheadFactor * 1000, with the
\* target's current costPerHour (an admin override takes effect) and the one
\* process-wide overheadFactor.
C7_CostFormula ==
    /\ (lastOp.op = "Calculate" /\ lastOp.name \in DOMAIN ceClusters /\ lastOp.tps > 0) =>
          LET c == ceClusters[lastOp.name].CostPerHour
          IN  lastOp.cost = FMul(FMul(FDiv(c, FMul(Float(lastOp.tps), Float(3600))),
                                       ceOverhead), Float(1000))
    /\ (lastOp.op = "UpdateClusterCost" /\ lastOp.name \in DOMAIN ceClusters) =>
          ceClusters[lastOp.name].CostPerHour = lastOp.cost

\* a cost has just been computed from an overridden hourly cost
C7_Witness ==
    \E n \in DOMAIN ceClusters :
        /\ lastOp.op = "Calculate"
        /\ lastOp.name = n
        /\ lastOp.tps = 50
        /\ ceClusters[n].CostPerHour \in OverrideCosts
        /\ ceOverhead = DefaultOverhead
        /\ lastOp.cost = Dec(22, 100000)

\* the indices of rqTargets holding a candidate of the given type and name
TargetsOf(type, name) ==
    {i \in 1..Len(rqTargets) : rqTargets[i].Type = type /\ rqTargets[i].Name = name}

\* the target selectTarget returned
Selected == rqTargets[rqResult.index]

\* the cluster candidates of rqTargets at or under the threshold
UnderThreshold ==
    {i \in 1..Len(rqTargets) :
        rqTargets[i].Type = "cluster" /\ FLeq(rqTargets[i].Cost, cfgThreshold)}

\* C5 (as stated): under the cost strategy and the hybrid strategy, a cluster
\* candidate whose computed cost is +infinity is never the selected target,
\* whatever candidate list contains it.
C5_InfiniteCostNeverSelected ==
    (rqPc = "selected" /\ cfgStrategy \in {"cost", "hybrid"} /\ ~rqResult.err) =>
        ~(Selected.Type = "cluster" /\ IsInf(Selected.Cost))

\* C8: selectTarget fails with "no healthy targets available" iff the
\* candidate list is empty; otherwise, whatever the configured strategy, it
\* returns one target, a member of the candidate list built for this call.
C8_ErrorIffNoCandidates ==
    rqPc = "selected" =>
        /\ rqResult.err <=> Len(rqTargets) = 0
        /\ rqResult.err =>
             rqResult.reason = "no healthy targets available" /\ rqResult.index = 0
        /\ ~rqResult.err => rqResult.index \in 1..Len(rqTargets)

C8_Witness ==
    /\ rqPc = "selected"
    /\ cfgStrategy = "external_first"
    /\ Len(rqTargets) = 2
    /\ \A i \in 1..Len(rqTargets) : rqTargets[i].Type = "cluster"
    /\ ~rqResult.err
    /\ rqResult.index = 1

\* C9: the candidate list built for a selection call contains a cluster iff
\* the cluster is healthy in the Health Monitor's map as the call read it and
\* its LatencyP95 <= MaxLatencyMs and QueueDepth <= MaxQueueDepth; it contains
\* a provider iff that registered provider's health check succeeded during the
\* call; it contains nothing else.
C9_CandidatesAreHealthyWithinSLA ==
    rqPc = "selected" =>
        /\ \A n \in Names :
             TargetsOf("cluster", n) # {} <=>
                /\ n \in DOMAIN rqAll
                /\ rqAll[n].Healthy
                /\ rqAll[n].LatencyP95 <= MaxLatencyMs
                /\ rqAll[n].QueueDepth <= MaxQueueDepth
        /\ \A p \in cfgProviders : TargetsOf("provider", p) # {} <=> p \in rqProvOk
        /\ \A i \in 1..Len(rqTargets) :
             \/ rqTargets[i].Type = "cluster" /\ rqTargets[i].Name \in Names
             \/ rqTargets[i].Type = "provider" /\ rqTargets[i].Name \in cfgProviders

C9_Witness ==
    /\ rqPc = "selected"
    /\ rqAll["a"].Healthy /\ rqAll["a"].QueueDepth > MaxQueueDepth
    /\ rqAll["b"].Healthy /\ rqAll["b"].LatencyP95 > MaxLatencyMs
    /\ rqProvOk = {"claude"}
    /\ Len(rqTargets) = 1
    /\ rqTargets[1].Name = "claude"

\* C10: under strategy hybrid, if some cluster candidate has Cost <=
\* clusterCostThreshold (equality included), the selected target is the
\* cheapest such cluster, the first-seen one on ties, even when a provider or
\* another candidate is cheaper, and the decision is tagged hybrid_cluster.
C10_HybridPrefersClusterUnderThreshold ==
    (rqPc = "selected" /\ cfgStrategy = "hybrid" /\ UnderThreshold # {}) =>
        /\ ~rqResult.err
        /\ rqResult.reason = "hybrid_cluster"
        /\ rqResult.index \in UnderThreshold
        /\ \A i \in UnderThreshold :
             /\ FLeq(Selected.Cost, rqTargets[i].Cost)
             /\ i < rqResult.index => FLess(Selected.Cost, rqTargets[i].Cost)

C10_Witness ==
    /\ rqPc = "selected"
    /\ cfgStrategy = "hybrid"
    /\ Cardinality(UnderThreshold) = 2
    /\ \A i \in UnderThreshold : rqTargets[i].Cost = cfgThreshold
    /\ \E i \in 1..Len(rqTargets) :
         rqTargets[i].Type = "provider" /\ FLess(rqTargets[i].Cost, Selected.Cost)
    /\ rqResult.index = 1
    /\ rqResult.reason = "hybrid_cluster"

\* C11: under strategy hybrid, if no cluster candidate has Cost <=
\* clusterCostThreshold, the selected target is a candidate of minimum Cost
\* over all candidates of any type, clusters above the threshold included,
\* and the decision is tagged hybrid_cheapest.
C11_HybridFallsBackToGlobalCheapest ==
    (rqPc = "selected" /\ cfgStrategy = "hybrid" /\ UnderThreshold = {}
        /\ Len(rqTargets) > 0) =>
        /\ ~rqResult.err
        /\ rqResult.reason = "hybrid_cheapest"
        /\ rqResult.index \in 1..Len(rqTargets)
        /\ \A i \in 1..Len(rqTargets) : FLeq(Selected.Cost, rqTargets[i].Cost)

\* two clusters above the threshold, the cheaper one second in the list and
\* selected
C11_Witness ==
    /\ rqPc = "selected"
    /\ cfgStrategy = "hybrid"
    /\ UnderThreshold = {}
    /\ Len(rqTargets) = 2
    /\ \A i \in 1..2 : rqTargets[i].Type = "cluster"
    /\ FLess(rqTargets[2].Cost, rqTargets[1].Cost)
    /\ rqResult.index = 2
    /\ rqResult.reason = "hybrid_cheapest"

\* the candidates of rqTargets of the given type
OfType(type) == {i \in 1..Len(rqTargets) : rqTargets[i].Type = type}

\* C12 (as stated): under strategy hybrid, when no cluster's cost is under
\* the threshold, the request is routed to the cheapest external provider.
C12_Original ==
    (rqPc = "selected" /\ cfgStrategy = "hybrid" /\ UnderThreshold = {}
        /\ ~rqResult.err) =>
        /\ Selected.Type = "provider"
        /\ \A i \in OfType("provider") : FLeq(Selected.Cost, rqTargets[i].Cost)

\* C12 (amended): under strategy hybrid, when no cluster candidate is at or
\* under the threshold, the request is routed to the cheapest external
\* provider exactly when some provider candidate costs less than every
\* cluster candidate; otherwise it is routed to a cluster above the threshold.
C12_HybridProviderOnlyWhenCheaper ==
    (rqPc = "selected" /\ cfgStrategy = "hybrid" /\ UnderThreshold = {}
        /\ ~rqResult.err) =>
        LET cheaper == {p \in OfType("provider") :
                           \A c \in OfType("cluster") :
                               FLess(rqTargets[p].Cost, rqTargets[c].Cost)}
        IN  /\ Selected.Type = "provider" <=> cheaper # {}
            /\ Selected.Type = "provider" =>
                 \A i \in OfType("provider") : FLeq(Selected.Cost, rqTargets[i].Cost)
            /\ Selected.Type = "cluster" => ~FLeq(Selected.Cost, cfgThreshold)

\* a cluster above the threshold comes first, two providers follow, the
\* cheaper provider last: it is selected
C12_Witness ==
    /\ rqPc = "selected"
    /\ cfgStrategy = "hybrid"
    /\ UnderThreshold = {}
    /\ Len(rqTargets) = 3
    /\ rqTargets[1].Type = "cluster" /\ ~IsInf(rqTargets[1].Cost)
    /\ rqTargets[2].Type = "provider"
    /\ rqTargets[3].Type = "provider"
    /\ FLess(rqTargets[3].Cost, rqTargets[2].Cost)
    /\ rqResult.index = 3

\* C13: under strategy cost, the selected target has the minimum Cost over all
\* candidates of both types, the earliest in the list among those of equal
\* minimum Cost, and the decision is tagged lowest_cost; a provider cheaper
\* than every cluster is therefore always selected.
C13_CostPicksFirstGlobalMinimum ==
    (rqPc = "selected" /\ cfgStrategy = "cost" /\ Len(rqTargets) > 0) =>
        /\ ~rqResult.err
        /\ rqResult.reason = "lowest_cost"
        /\ rqResult.index \in 1..Len(rqTargets)
        /\ \A i \in 1..Len(rqTargets) :
             /\ FLeq(Selected.Cost, rqTargets[i].Cost)
             /\ i < rqResult.index => FLess(Selected.Cost, rqTargets[i].Cost)
        /\ (\E p \in OfType("provider") : \A c \in OfType("cluster") :
               FLess(rqTargets[p].Cost, rqTargets[c].Cost))
             => Selected.Type = "provider"

\* two clusters of equal finite cost and no other candidate: the first is
\* selected
C13_Witness ==
    /\ rqPc = "selected"
    /\ cfgStrategy = "cost"
    /\ Len(rqTargets) = 2
    /\ rqTargets[1].Cost = rqTargets[2].Cost
    /\ ~IsInf(rqTargets[1].Cost)
    /\ rqTargets[1].Name # rqTargets[2].Name
    /\ rqResult.index = 1
    /\ rqResult.reason = "lowest_cost"

\* C14: under strategy latency, for every candidate list that candidate
\* construction produces: if a cluster candidate exists, the selected target
\* is a cluster of minimum LatencyP95 among the cluster candidates, never a
\* provider; if none exists, the first candidate is selected.  The decision is
\* tagged lowest_latency.
C14_LatencyPicksFastestCluster ==
    (rqPc = "selected" /\ cfgStrategy = "latency" /\ Len(rqTargets) > 0) =>
        /\ ~rqResult.err
        /\ rqResult.reason = "lowest_latency"
        /\ rqResult.index \in 1..Len(rqTargets)
        /\ OfType("cluster") # {} =>
             /\ Selected.Type = "cluster"
             /\ \A c \in OfType("cluster") :
                  Selected.LatencyP95 <= rqTargets[c].LatencyP95
        /\ OfType("cluster") = {} => rqResult.index = 1

\* two clusters, the second one faster, and a provider: the second cluster
\* is selected
C14_Witness ==
    /\ rqPc = "selected"
    /\ cfgStrategy = "latency"
    /\ Len(rqTargets) = 3
    /\ rqTargets[1].Type = "cluster"
    /\ rqTargets[2].Type = "cluster"
    /\ rqTargets[3].Type = "provider"
    /\ 0 < rqTargets[2].LatencyP95
    /\ rqTargets[2].LatencyP95 < rqTargets[1].LatencyP95
    /\ rqResult.index = 2
    /\ rqResult.reason = "lowest_latency"

\* the first candidate of rqTargets of the given type (0 when there is none)
FirstOf(type) ==
    IF OfType(type) = {} THEN 0
    ELSE CHOOSE i \in OfType(type) : \A j \in OfType(type) : i <= j

\* C15: under strategy cluster_first, the selected target is the first
\* cluster-type candidate of the list whenever a cluster candidate exists
\* (tagged cluster_first), whatever the costs; otherwise it is the first
\* provider-type candidate (tagged external_fallback).
C15_ClusterFirst ==
    (rqPc = "selected" /\ cfgStrategy = "cluster_first" /\ Len(rqTargets) > 0) =>
        /\ ~rqResult.err
        /\ OfType("cluster") # {} =>
             rqResult.index = FirstOf("cluster") /\ rqResult.reason = "cluster_first"
        /\ OfType("cluster") = {} =>
             rqResult.index = FirstOf("provider") /\ rqResult.reason = "external_fallback"

\* the first cluster costs more than the second and more than a provider, and
\* is selected all the same
C15_Witness ==
    /\ rqPc = "selected"
    /\ cfgStrategy = "cluster_first"
    /\ Len(rqTargets) >= 3
    /\ rqTargets[1].Type = "cluster"
    /\ rqTargets[2].Type = "cluster"
    /\ rqTargets[3].Type = "provider"
    /\ FLess(rqTargets[2].Cost, rqTargets[1].Cost)
    /\ FLess(rqTargets[3].Cost, rqTargets[2].Cost)
    /\ rqResult.index = 1
    /\ rqResult.reason = "cluster_first"

\* C16: under strategy external_first, the selected target is the first
\* provider-type candidate of the list whenever a provider candidate exists
\* (tagged external_first); otherwise it is the first cluster-type candidate
\* (tagged cluster_fallback).
C16_ExternalFirst ==
    (rqPc = "selected" /\ cfgStrategy = "external_first" /\ Len(rqTargets) > 0) =>
        /\ ~rqResult.err
        /\ OfType("provider") # {} =>
             rqResult.index = FirstOf("provider") /\ rqResult.reason = "external_first"
        /\ OfType("provider") = {} =>
             rqResult.index = FirstOf("cluster") /\ rqResult.reason = "cluster_fallback"

\* a cluster, then two providers of which the second is cheaper: the first
\* provider is selected
C16_Witness ==
    /\ rqPc = "selected"
    /\ cfgStrategy = "external_first"
    /\ Len(rqTargets) = 3
    /\ rqTargets[1].Type = "cluster"
    /\ rqTargets[2].Type = "provider"
    /\ rqTargets[3].Type = "provider"
    /\ FLess(rqTargets[3].Cost, rqTargets[2].Cost)
    /\ rqResult.index = 2
    /\ rqResult.reason = "external_first"

\* the reason strings a routing decision may carry
Reasons ==
    {"lowest_cost", "lowest_latency", "cluster_first", "external_fallback",
     "external_first", "cluster_fallback", "hybrid_cluster", "hybrid_cheapest"}

\* counter new is counter old with one more count for labels d and nothing else
OneMore(old, new, d) ==
    /\ DOMAIN new = DOMAIN old \cup {d}
    /\ \A l \in DOMAIN new : new[l] = Count(old, l) + (IF l = d THEN 1 ELSE 0)

\* C17: every successful selection records exactly one routing decision; its
\* reason is one of the eight reason strings, its target and type labels are
\* those of the returned target, and the reason agrees with the type:
\* external_fallback and external_first only with type provider,
\* cluster_first, cluster_fallback and hybrid_cluster only with type cluster.
\* A failed selection and every other step record none.
C17_OneConsistentDecision ==
    [][IF rqPc = "targets" /\ rqPc' = "selected" /\ ~rqResult'.err
       THEN LET t == rqTargets'[rqResult'.index]
                reason == rqResult'.reason
            IN  /\ OneMore(routerMetrics.routingDecisions,
                           routerMetrics'.routingDecisions,
                           <<t.Name, t.Type, reason>>)
                /\ reason \in Reasons
                /\ reason \in {"external_fallback", "external_first"}
                     => t.Type = "provider"
                /\ reason \in {"cluster_first", "cluster_fallback", "hybrid_cluster"}
                     => t.Type = "cluster"
       ELSE routerMetrics'.routingDecisions = routerMetrics.routingDecisions]_vars

\* cluster_first with no cluster candidate: a provider is returned and one
\* decision (provider, external_fallback) is on the counter
C17_Witness ==
    /\ rqPc = "selected"
    /\ ~rqResult.err
    /\ rqResult.reason = "external_fallback"
    /\ Selected.Type = "provider"
    /\ routerMetrics.routingDecisions =
         Inc(NoMetrics.routingDecisions, <<Selected.Name, "provider", "external_fallback">>)

\* C18: when selection fails because the candidate set is empty, the handler
\* answers 503 itself, counts one request with labels (none, 503), makes no
\* forward call, records nothing else, and the request ends without a second
\* selection: its only further step is the handler's return.
C18_EmptySetIsUnavailable ==
    [][(rqPc # "idle" /\ rqResult.err) =>
         /\ rqTargets = <<>>
         /\ rqPc = "selected" =>
              \/ /\ rqPc' = "done"
                 /\ rqResponse' = [status |-> 503, by |-> "handler"]
                 /\ OneMore(routerMetrics.requestsTotal,
                            routerMetrics'.requestsTotal, <<"none", "503">>)
                 /\ routerMetrics'.externalAPIRequests = routerMetrics.externalAPIRequests
                 /\ rqForwards' = <<>>
                 /\ rqCount' = rqCount
                 /\ UNCHANGED <<callVars, rqTargets, rqResult>>
              \/ UNCHANGED <<callVars, requestVars, routerMetrics>>
         /\ rqPc = "done" =>
              \/ rqPc' = "idle" /\ rqCount' = rqCount /\ UNCHANGED routerMetrics
              \/ UNCHANGED <<callVars, requestVars, routerMetrics>>]_vars

\* a request answered 503 after a selection over no candidates
C18_Witness ==
    /\ rqPc = "done"
    /\ rqResult.err
    /\ rqTargets = <<>>
    /\ rqResponse.status = 503
    /\ rqForwards = <<>>
    /\ Count(routerMetrics.requestsTotal, <<"none", "503">>) = 1

\* the forward of the current request failed before anything was written to
\* the client: the upstream connection could not be made
TransportFailed ==
    /\ rqPc = "done"
    /\ Len(rqForwards) = 1
    /\ rqForwards[1].err
    /\ rqResponse.by # "upstream"

\* C19: when the forward to the selected target fails with a transport error
\* before any response has been written, the client receives an error
\* response (status 400 or above) and the failure is counted as a forwarding
\* failure of that target.
C19_TransportErrorSurfaced ==
    TransportFailed =>
        /\ rqResponse.status >= 400
        /\ Count(routerMetrics.requestsTotal, <<rqForwards[1].Name, "error">>) >= 1

\* the names selection would read as cluster candidates from Checker map c
HealthyNames(c) == {n \in DOMAIN c : c[n].Healthy}

\* C20: every step of request handling (selection, forward and response,
\* return), the forward having failed or not, leaves Healthy, ErrorCount and
\* ConsecutiveError of every cluster as they were, so a cluster whose forward
\* just failed is still handed to the next selection if it was before.
C20_RequestLeavesHealthAlone ==
    [][rqPc' # rqPc =>
         /\ DOMAIN hcClusters' = DOMAIN hcClusters
         /\ \A n \in DOMAIN hcClusters :
              /\ hcClusters'[n].Healthy = hcClusters[n].Healthy
              /\ hcClusters'[n].ErrorCount = hcClusters[n].ErrorCount
              /\ hcClusters'[n].ConsecutiveError = hcClusters[n].ConsecutiveError
         /\ HealthyNames(hcClusters') = HealthyNames(hcClusters)]_vars

\* a request whose forward to a cluster failed has ended, and that cluster is
\* still healthy with no error counted by the Checker
C20_Witness ==
    /\ rqPc = "done"
    /\ Len(rqForwards) = 1
    /\ rqForwards[1].Type = "cluster"
    /\ rqForwards[1].err
    /\ rqForwards[1].Name \in HealthyNames(hcClusters)
    /\ hcClusters[rqForwards[1].Name].ConsecutiveError = 0
    /\ Count(routerMetrics.requestsTotal, <<rqForwards[1].Name, "error">>) = 1

\* a tick begins: Start's initial check or a ticker tick enters checkAllClusters
TickBegins == hcPc # "join" /\ hcPc' = "join"

\* C21: health-poll ticks never overlap. A tick begins only with no check in
\* flight and starts one check for each cluster registered at that moment;
\* while checks are in flight any of them can be the next to take its step,
\* whatever the state of the others; the loop leaves the tick (for the next
\* tick or for its return) only when every check of the tick is finished.
C21_TicksAreSequential ==
    /\ [][/\ TickBegins =>
               /\ hcChecks = EmptyMap
               /\ hcChecks' = [n \in DOMAIN hcClusters |-> "spawned"]
          /\ (hcPc = "join" /\ hcPc' # "join") => hcChecks = EmptyMap]_vars
    /\ [](/\ hcChecks # EmptyMap => hcPc = "join"
          /\ \A n \in DOMAIN hcChecks :
               /\ hcChecks[n] = "spawned" => ENABLED checkClusterBegin(n)
               /\ hcChecks[n] = "probing" =>
                    \E resp \in ProbeResponses : ENABLED checkClusterApply(n, resp))

\* within one tick over clusters a and b, the check of b has been applied
\* while the check of a is still waiting for its probe
C21_Witness ==
    /\ hcPc = "join"
    /\ lastOp.op = "checkCluster"
    /\ lastOp.name = "b"
    /\ "a" \in DOMAIN hcChecks
    /\ hcChecks["a"] = "probing"

\* the operations that write a cluster's entry in the Checker's map
AppliedOps == {"checkCluster", "MarkUnhealthy", "ForceHealthy", "AddCluster"}

\* C22: no Checker lock is held while a probe is in flight, so
\* GetHealthyMetrics and GetAllMetrics can complete whatever checks are in
\* flight, and what they return is each cluster's entry as the last applied
\* check or override left it: the map is written by those operations only,
\* GetAllMetrics returns it whole and GetHealthyMetrics its healthy entries.
C22_SnapshotsNeverWait ==
    /\ [](/\ hcMu = Unlocked
          /\ ENABLED GetHealthyMetricsCall
          /\ ENABLED GetAllMetricsCall)
    /\ [][/\ hcClusters' # hcClusters => lastOp'.op \in AppliedOps
          /\ lastOp'.op = "GetAllMetrics" => lastOp'.snap = hcClusters
          /\ lastOp'.op = "GetHealthyMetrics" =>
               lastOp'.snap = [n \in {m \in DOMAIN hcClusters : hcClusters[m].Healthy}
                                 |-> hcClusters[n]]]_vars

\* GetHealthyMetrics returned cluster a, healthy since its last applied
\* check, while the next probe of a is in flight
C22_Witness ==
    /\ lastOp.op = "GetHealthyMetrics"
    /\ "a" \in DOMAIN lastOp.snap
    /\ lastOp.snap["a"].Healthy
    /\ "a" \in DOMAIN hcChecks
    /\ hcChecks["a"] = "probing"
    /\ ticks = 2

\* C23: once the cancellation signal has fired, the health-poll loop and the
\* metrics-refresh loop each eventually return (goroutines scheduled fairly,
\* probes answering), and a loop that has taken the cancellation case stays
\* returned: it starts no tick, no check and no refresh afterwards.
C23_LoopsStopOnCancel ==
    /\ ctxDone ~> hcPc = "returned"
    /\ ctxDone ~> umPc = "returned"
    /\ [][/\ hcPc = "returned" =>
               hcPc' = "returned" /\ hcChecks' = EmptyMap /\ ticks' = ticks
          /\ umPc = "returned" =>
               umPc' = "returned" /\ umTicks' = umTicks]_vars

\* both loops have returned after cancellation, each having run a round
C23_Witness ==
    /\ ctxDone
    /\ hcPc = "returned"
    /\ umPc = "returned"
    /\ ticks >= 1
    /\ umTicks >= 1

\* C24: shutdown joins the in-flight health checks: when Router.Start has
\* returned after cancellation, the health-poll loop has returned and no
\* health check it started is still in flight.
C24_ShutdownJoinsChecks ==
    rsPc = "returned" => hcPc = "returned" /\ hcChecks = EmptyMap

\* C25: when the inbound request is cancelled (the client is gone) while its
\* outbound call is in flight, the outbound call is cancelled too, whether
\* the target is a cluster served by the Forwarder or a provider.
C25_CancellationPropagates ==
    (rqPc = "forwarding" /\ rqCtxDone) => OutboundCancelled

\* the call followed is a call of fn that has returned
CallDone(fn) == callIn.fn = fn /\ callOut.done

\* C26: a cluster configured with authType mtls whose certificate/key pair is
\* missing or cannot be loaded makes the construction of the router fail; no
\* router is returned that would forward to that cluster without its client
\* credentials.
C26_BadCertificateIsFatal ==
    (/\ CallDone("NewRouter")
     /\ callIn.cluster.AuthType = "mtls"
     /\ ~LoadX509KeyPair(callIn.cluster.CertFile, callIn.cluster.KeyFile))
    => ~callOut.ret.constructed

\* a signed request that has been validated by the receiving server
SignedAndValidated ==
    /\ callIn.fn = "addHMACAuth"
    /\ callOut.done

InsideWindow(offset) == offset >= -ReplayWindow /\ offset <= ReplayWindow

\* C27: a request signed by the Forwarder with secret s validates with the
\* same secret, method, path and body when the validator's clock is within
\* the replay window of the signer's; once a single byte of the body, of the
\* path or of the secret has been replaced by another byte, validation
\* returns false.
C27_SignatureRoundTrip ==
    SignedAndValidated =>
        /\ (callOut.tampered = "none" /\ InsideWindow(callIn.offset)) => callOut.ret
        /\ callOut.tampered \in {"body", "path", "secret"} => ~callOut.ret

C27_Witness ==
    /\ SignedAndValidated
    /\ callOut.tampered = "secret"
    /\ callIn.offset = 0
    /\ Len(callIn.body) = MaxLen
    /\ ~callOut.ret
    /\ ValidateHMACSignature(callOut.req, callIn.secret, callOut.body, SignTime)

\* a crafted request, correctly signed for its X-Timestamp, has been validated
CraftedValidated ==
    /\ callIn.fn = "ValidateHMACSignature"
    /\ callOut.done

\* the int64 values at most ReplayWindow seconds from now
WithinWindow(now) == {I64(now + d) : d \in (-ReplayWindow)..ReplayWindow}

\* C28: ValidateHMACSignature returns false whenever the X-Timestamp is more
\* than 300 seconds from now, in the past or in the future, even when the
\* signature is correct for that timestamp; a timestamp 300 seconds or less
\* from now is not rejected by the timestamp check.
C28_ReplayWindowEnforced ==
    CraftedValidated =>
        LET ts == ParseInt(callIn.timestamp)
        IN  ~ts.err => (callOut.ret <=> ts.val \in WithinWindow(SignTime))

\* a provider adapter's health check has returned
HealthReturned ==
    /\ callIn.fn = "Health"
    /\ callOut.done

\* C29: for every provider adapter (OpenAI, Claude, Gemini), the health check
\* returns success when the provider answers with HTTP 429, so that a
\* rate-limited provider stays a candidate.
C29_RateLimitedIsHealthy ==
    (/\ HealthReturned
     /\ ~callIn.resp.transportErr
     /\ callIn.resp.StatusCode = StatusTooManyRequests) => ~callOut.ret.err

\* the model of a pricing table that no model undercuts, on input or on output
Cheapest(table) ==
    CHOOSE m \in DOMAIN table :
        \A n \in DOMAIN table :
            /\ FLeq(table[m].InputPricePer1K, table[n].InputPricePer1K)
            /\ FLeq(table[m].OutputPricePer1K, table[n].OutputPricePer1K)

\* a provider adapter's cost estimate has returned
CalculateCostReturned ==
    /\ callIn.fn = "CalculateCost"
    /\ callOut.done

\* C30: for every provider adapter, when the configured default model is
\* absent from the adapter's pricing table, the cost estimate is the one
\* computed with the pricing of the cheapest model of that table.
C30_FallsBackToCheapest ==
    (/\ CalculateCostReturned
     /\ callIn.defaultModel \notin DOMAIN GetModelPricing(callIn.type)) =>
        LET table == GetModelPricing(callIn.type)
        IN  callOut.ret = CostWith(table[Cheapest(table)], callIn.inputTokens,
                                   callIn.outputTokens)

\* a canonical request has been translated for Gemini
ConvertedToGemini ==
    /\ callIn.fn = "convertToGeminiFormat"
    /\ callOut.done

\* the texts an outbound Gemini request carries outside its contents: the
\* generation configuration holds numbers only
TextsOutsideContents(body) ==
    UNION {IF f = "generationConfig" THEN {} ELSE {body[f]} :
              f \in DOMAIN body \ {"contents"}}

\* C31: converting a canonical request to the Gemini format loses no message
\* content: the non-system messages appear in the outbound contents in their
\* original order, role assistant renamed to model and every other role sent
\* as user, and the content of every system message is carried in a separate
\* field of the outbound request.
C31_NoMessageContentLost ==
    ConvertedToGemini =>
        LET messages == IF "messages" \in DOMAIN callIn.requestData
                        THEN callIn.requestData["messages"] ELSE <<>>
            kept == SelectSeq(messages, LAMBDA m : m.role # "system")
            body == callOut.ret.body
            contents == body["contents"].items
        IN  /\ Len(contents) = Len(kept)
            /\ \A i \in 1..Len(kept) :
                  /\ contents[i].role =
                        (IF kept[i].role = "assistant" THEN "model" ELSE "user")
                  /\ kept[i].content.isString
                  /\ contents[i].parts = <<[text |-> kept[i].content.text]>>
            /\ \A i \in 1..Len(messages) :
                  messages[i].role = "system" =>
                      messages[i].content.text \in TextsOutsideContents(body)

\* an adapter has translated a provider's answer
TranslatedBack ==
    /\ callIn.fn \in {"convertFromGeminiFormat", "convertFromClaudeFormat"}
    /\ callOut.done

\* C32: when a provider's response body cannot be parsed during translation,
\* the adapter hands the provider's raw bytes to the caller, for the Claude
\* and for the Gemini adapter; the bytes are never replaced by other content.
C32_MalformedBytesHandedOn ==
    (TranslatedBack /\ Unmarshal(callIn.response).err) => callOut.ret = callIn.response

\* the texts of a list of content blocks or parts, one after the other
RECURSIVE CompleteText(_)
CompleteText(blocks) ==
    IF Len(blocks) = 0 THEN <<>> ELSE blocks[1].text \o CompleteText(Tail(blocks))

\* the blocks or parts of a well-formed provider answer
AnswerBlocks(fn, data) ==
    IF fn = "convertFromGeminiFormat" THEN data["candidates"][1].content.parts
    ELSE data["content"]

\* whether the provider reported token counts
ReportsUsage(fn, data) ==
    IF fn = "convertFromGeminiFormat" THEN "usageMetadata" \in DOMAIN data
    ELSE "usage" \in DOMAIN data

\* C34: translating a well-formed provider response back to the canonical
\* shape yields one choice with role assistant whose content is the complete
\* text of the provider's answer (all blocks or parts), and, when the provider
\* reported them, the input and output token counts under the canonical usage
\* field names prompt_tokens and completion_tokens.
C34_AnswerTranslatedBack ==
    (TranslatedBack /\ ~Unmarshal(callIn.response).err) =>
        LET data == callIn.response.data
            out == callOut.ret.data
        IN  /\ callOut.ret.kind = "object"
            /\ Len(out.choices) = 1
            /\ out.choices[1].message.role = "assistant"
            /\ out.choices[1].message.content = CompleteText(AnswerBlocks(callIn.fn, data))
            /\ ReportsUsage(callIn.fn, data) =>
                  /\ "usage" \in DOMAIN out
                  /\ {"prompt_tokens", "completion_tokens"} \subseteq DOMAIN out.usage
                  /\ out.usage.prompt_tokens = ReportedTokens.input
                  /\ out.usage.completion_tokens = ReportedTokens.output

\* a streaming answer is being relayed, or has been
Streaming ==
    /\ callIn.fn = "handleStreamingResponse"
    /\ callOut # NotReturned

\* the events written that carry a converted chunk
ChunkEvents(events) == SelectSeq(events, LAMBDA e : e # DoneEvent)

\* C33: for a streaming request served by an adapter whose provider does not
\* speak server-sent events, each provider chunk is converted and written to
\* the client before any later chunk is read, and exactly one terminal
\* sentinel event is written, after the last chunk, once the provider signals
\* completion.
C33_ChunkByChunk ==
    Streaming =>
        /\ callOut.read <= Len(ChunkEvents(callOut.events)) + 1
        /\ (callOut.done /\ callOut.completed) =>
              /\ Len(callOut.events) = Len(callIn.body.chunks) + 1
              /\ callOut.events[Len(callOut.events)] = DoneEvent
              /\ \A i \in 1..Len(callIn.body.chunks) :
                    callOut.events[i] =
                        DataEvent(convertFromGeminiFormat(JSONObject(callIn.body.chunks[i]),
                                                          "gemini-pro", SignTime))

\* C35: when router.enableExternalFallback is false, external providers are
\* never added to the candidate set and never selected, under every routing
\* strategy.
C35_NoFallbackWhenDisabled ==
    ~cfgEnableExternalFallback =>
        /\ \A i \in 1..Len(rqTargets) : rqTargets[i].Type # "provider"
        /\ (rqPc \notin {"idle", "targets"} /\ ~rqResult.err) =>
             rqTargets[rqResult.index].Type # "provider"

\* the counters of every registered cluster are consistent with its flag
CountersConsistent ==
    \A n \in DOMAIN hcClusters :
        /\ hcClusters[n].Healthy => hcClusters[n].ConsecutiveError <= maxConsecutiveErrors - 1
        /\ 0 <= hcClusters[n].ConsecutiveError
        /\ hcClusters[n].ConsecutiveError <= hcClusters[n].ErrorCount

\* C36 (as claimed): in every reachable Health Monitor state and for every
\* registered cluster, healthy implies consecutiveErrors <= 2, and
\* 0 <= consecutiveErrors <= errorCount; errorCount never decreases while the
\* cluster stays registered.
C36_Original ==
    /\ [](CountersConsistent)
    /\ [][\A n \in DOMAIN hcClusters \cap DOMAIN hcClusters' :
             hcClusters'[n].ErrorCount >= hcClusters[n].ErrorCount]_vars

\* C36 (amended): in every reachable Health Monitor state and for every
\* registered cluster, healthy implies consecutiveErrors <= 2, and
\* 0 <= consecutiveErrors <= errorCount; errorCount never decreases while the
\* cluster stays registered, except that registering the same name again
\* resets it to 0.
C36_CountersConsistent ==
    /\ [](CountersConsistent)
    /\ [][\A n \in DOMAIN hcClusters \cap DOMAIN hcClusters' :
             \/ hcClusters'[n].ErrorCount >= hcClusters[n].ErrorCount
             \/ /\ lastOp' = Op("AddCluster", n, TRUE)
                /\ hcClusters'[n].ErrorCount = 0]_vars

\* a healthy cluster with a streak of two errors after an earlier streak that
\* ended in a recovery: the failed probe has not flipped it
C36_Witness ==
    \E n \in DOMAIN hcClusters :
        /\ LastWas("checkCluster", n, FALSE, TRUE)
        /\ hcClusters[n].Healthy
        /\ hcClusters[n].ConsecutiveError = maxConsecutiveErrors - 1
        /\ hcClusters[n].ErrorCount = MaxErrors

\* the measurements of a cluster's record
Measurements(c) == <<c.TokensPerSecond, c.LatencyP95, c.QueueDepth>>

\* C37: every cluster returned by GetHealthyMetrics has tokensPerSecond > 0;
\* a failed probe that does not reach the failure threshold, and a
\* ForceHealthy override, leave a healthy cluster with the tokensPerSecond,
\* latencyP95 and queueDepth it had.
C37_HealthyHasThroughput ==
    /\ [](\A n \in DOMAIN GetHealthyMetrics : GetHealthyMetrics[n].TokensPerSecond > 0)
    /\ [][\A n \in DOMAIN hcClusters \cap DOMAIN hcClusters' :
             (/\ hcClusters'[n].Healthy
              /\ \/ lastOp' = Op("checkCluster", n, FALSE)
                 \/ lastOp' = Op("ForceHealthy", n, TRUE))
             => Measurements(hcClusters'[n]) = Measurements(hcClusters[n])]_vars

\* MarkUnhealthy(n) has just returned while a check of n, started before the
\* call, is waiting for its probe to answer
MarkedWithCheckInFlight(n) ==
    /\ lastOp.op = "MarkUnhealthy"
    /\ lastOp.name = n
    /\ lastOp.ok
    /\ n \in DOMAIN hcChecks
    /\ hcChecks[n] = "probing"

\* C38: after MarkUnhealthy(name) returns, the cluster stays out of
\* GetHealthyMetrics until ForceHealthy(name) is called or a health check
\* started after the call succeeds: the result of a check that was already in
\* flight when the override was made does not make the cluster healthy again.
C38_OverrideOutlivesChecksInFlight ==
    [][\A n \in Names :
         MarkedWithCheckInFlight(n) =>
             ~(/\ lastOp'.op = "checkCluster"
               /\ lastOp'.name = n
               /\ n \in DOMAIN GetHealthyMetrics')]_vars

\* C39: for the same secret and timestamp, two requests that differ in their
\* (method, path, body) triple never both validate against one signature:
\* moving bytes across the path/body boundary invalidates the signature.
C39_PayloadDeterminesRequest ==
    (SignedAndValidated /\ callOut.tampered = "boundary") => ~callOut.ret

\* the arithmetic mean of the last k entries of costs, 1 <= k <= Len(costs)
RECURSIVE SumOf(_)
SumOf(s) ==
    IF Len(s) = 0 THEN Float(0)
    ELSE FAdd(SumOf(SubSeq(s, 1, Len(s) - 1)), s[Len(s)])

MeanOfLast(costs, k) ==
    FDiv(SumOf(SubSeq(costs, Len(costs) - k + 1, Len(costs))), Float(k))

\* C40: for every target and every integer lastN, GetAverageCost returns
\* (0, not found) when the target is unregistered or its history is empty, and
\* otherwise the arithmetic mean of the last min(lastN, len(history)) history
\* entries; the number of entries averaged, which is the divisor, is at least
\* 1, and the call never modifies the history.
C40_AverageOfLastN ==
    (callIn.fn = "GetAverageCost" /\ callOut.done) =>
        LET clusters == callIn.clusters
            name == callIn.clusterName
        IN  /\ callOut.ret.clusters = clusters
            /\ IF name \notin DOMAIN clusters \/ Len(clusters[name].HistoricalCosts) = 0
               THEN callOut.ret.ret = Float(0) /\ ~callOut.ret.ok
               ELSE LET costs == clusters[name].HistoricalCosts
                        k == IF callIn.lastN < Len(costs) THEN callIn.lastN ELSE Len(costs)
                    IN  /\ k >= 1
                        /\ callOut.ret.ok
                        /\ callOut.ret.ret = MeanOfLast(costs, k)

====
